---- MODULE Spec2Model ----
(***************************************************************************)
(* Model of ai-core: the credential rotator, the IAM token cache, the CVE  *)
(* store, and the dispatch pipeline (dispatcher.go, watson.go, cve.go,     *)
(* nvd.go).  Strings the code inspects character by character are          *)
(* sequences of one-character strings; instants and durations are in       *)
(* seconds.                                                                *)
(***************************************************************************)
EXTENDS Integers, Sequences, FiniteSets, TLC

VARIABLES
    \* ---- credential rotator (watson.go 19-40)
    envApiKeys,   \* value of WATSONX_API_KEYS, "" is <<>>
    apiKeys,      \* the pool, empty until first use
    keyIndex,     \* the rotation cursor (0-based)
    keyMutex,     \* 0 when free, else the task holding it
    kpc,          \* position of each task inside getNextAPIKey
    kkey,         \* each task's local `key`
    keyLog,       \* results of completed calls, in completion order
    envReads,     \* number of os.Getenv("WATSONX_API_KEYS") calls made
    \* ---- clock
    now,          \* time.Now(), in seconds
    \* ---- IAM token cache (watson.go 44-109)
    tokenCache,   \* api key -> tokenEntry, NoEntry when the key has none
    tokenMutex,   \* 0 when free, else the task holding it
    tpc,          \* position of each task inside getIAMToken
    tkey,         \* each task's argument apiKey
    tseen,        \* per task: the exchange that succeeded while it waited for tokenMutex
    iamResp,      \* the identity service's answer to the request in flight
    iamCalls,     \* number of token-exchange requests sent
    tokRet,       \* what the last completed getIAMToken call returned
    \* ---- CVE store (cve.go 15-159, nvd.go 43-111)
    cacheFile,    \* content of cve_cache.json, NoFile when absent or undecodable
    recentCVEs,   \* the in-memory record list
    epc,          \* position of the refresher inside EnsureRecentNetworkCVEs
    efArmed,      \* the startup call or a timer tick is due
    nvdResp,      \* the feed's answer to the request in flight
    efItems,      \* the refresher's local `filtered`
    fetchLog,     \* for each feed request: when it was sent and how the call ended
    efRet,        \* what the last completed EnsureRecentNetworkCVEs call returned
    cveMutex,     \* the RWMutex: held for writing, a Lock() waiting, the read holders
    spc,          \* position of each reader task inside GetRecentCVEs
    sloc,         \* each reader's locals: the length read and the copy `out`
    feedUp,       \* the feed has recovered: from now on it answers 200 with a decodable body
    \* ---- dispatch pipeline (dispatcher.go 3-22, watson.go 171-304)
    envWatsonOk,  \* WATSONX_REGION and WATSONX_PROJECT_ID are both non-empty
    dispEvent,    \* the event of the last DispatchEvent call
    aiRet,        \* what CallWatsonAI returned to it
    dispRet,      \* what DispatchEvent returned
    reqLog,       \* the network requests the last CallWatsonAI sent, in order
    dpc,          \* position of the request task inside DispatchEvent
    dloc,         \* its locals: apiKey, token, relevantCVEs
    \* ---- direct calls of the pure functions
    fnIn,         \* the function called last and its arguments
    fnOut,        \* what it returned
    \* ---- HTTP service of the client variant (unnamed/part_003, ai/watson.go)
    svcEnv,       \* WATSONX_API_KEYS, WATSONX_REGION, WATSONX_PROJECT_ID, the port
    watsonClient, \* the package variable: nil or the constructed client's fields
    mpc,          \* position of main
    hpc,          \* position of the request task inside handleEvent
    hreq,         \* the request body it was given
    hloc,         \* its locals: apiKey, whether Analyze was called, the requests sent
    hresp,        \* the response it wrote: status and body
    \* ---- one request's use of the record list (dispatcher.go, cve.go 280-354)
    rpc,          \* position of the request task between the accessor and the prompt
    rloc          \* its slices and the arrays it allocated

keyVars == <<envApiKeys, apiKeys, keyIndex, keyMutex, kpc, kkey, keyLog, envReads>>

tokVars == <<tokenCache, tokenMutex, tpc, tkey, tseen, iamResp, iamCalls, tokRet>>

storeVars == <<cacheFile, recentCVEs, epc, efArmed, nvdResp, efItems, fetchLog, efRet,
               cveMutex, spc, sloc, feedUp>>

dispVars == <<envWatsonOk, dispEvent, aiRet, dispRet, reqLog, dpc, dloc>>

fnVars == <<fnIn, fnOut>>

svcVars == <<svcEnv, watsonClient, mpc, hpc, hreq, hloc, hresp>>

reqVars == <<rpc, rloc>>

vars == <<keyVars, now, tokVars, storeVars, dispVars, fnVars, svcVars, reqVars>>

\* what the steps of one component leave alone
keyOthers == <<now, tokVars, storeVars, dispVars, fnVars, svcVars, reqVars>>

tokOthers == <<keyVars, storeVars, dispVars, fnVars, svcVars, reqVars>>

storeOthers == <<keyVars, tokVars, dispVars, fnVars, svcVars, reqVars>>

\* ------------------------------------------------------------------ bounds
NumTasks == 2
MaxCalls == 5
MaxTime == 120
MaxExchanges == 3
MaxStoreTime == 1500
MaxPipelineTime == 60
NumReaders == 2
MaxSnapshotTime == 300
MaxCache == 7
MaxTextLen == 4
MaxLiveTime == 900
MaxBigCache == 14
MaxRaceExchanges == 2

Tasks == 1..NumTasks

\* ------------------------------------------------------- string helpers
RECURSIVE TrimLeft(_)
TrimLeft(s) ==
    IF s # <<>> /\ Head(s) = " " THEN TrimLeft(Tail(s)) ELSE s

RECURSIVE TrimRight(_)
TrimRight(s) ==
    IF s # <<>> /\ s[Len(s)] = " " THEN TrimRight(SubSeq(s, 1, Len(s) - 1)) ELSE s

\* strings.TrimSpace
TrimSpace(s) == TrimRight(TrimLeft(s))

\* index of the first occurrence of character c in s, 0 when absent
IndexOf(s, c) ==
    IF \E i \in 1..Len(s) : s[i] = c
    THEN CHOOSE i \in 1..Len(s) : s[i] = c /\ \A j \in 1..(i - 1) : s[j] # c
    ELSE 0

\* strings.Split(s, ",")
RECURSIVE Split(_)
Split(s) ==
    LET i == IndexOf(s, ",")
    IN  IF i = 0 THEN <<s>>
        ELSE <<SubSeq(s, 1, i - 1)>> \o Split(SubSeq(s, i + 1, Len(s)))

\* ------------------------------------------------- credential rotator
\* the configurations of WATSONX_API_KEYS considered:
\*   unset/"", "a", "a, b", "a,b ,c", ","
KeyConfigs ==
    { <<>>,
      <<"a">>,
      <<"a", ",", " ", "b">>,
      <<"a", ",", "b", " ", ",", "c">>,
      <<",">> }

ErrNoKeys == "WATSONX_API_KEYS not set"

\* watson.go 29-33: the pool is empty and the configuration is absent or empty
InitFails(keys, raw) == Len(keys) = 0 /\ raw = <<>>

\* mutant: the configuration is read on every call
ReadsEnvAlways(keys) == TRUE

\* watson.go 29: the configuration is read only while the pool is empty
ReadsEnv(keys) == Len(keys) = 0

\* watson.go 29-35: the pool after the lazy initialisation
PoolAfterInit(keys, raw) ==
    IF ReadsEnv(keys) /\ raw # <<>> THEN Split(raw) ELSE keys

\* watson.go 37: apiKeys[keyIndex] panics when the index is out of range
IndexPanics(keys, idx) == ~(0 <= idx /\ idx < Len(keys))

\* watson.go 37
KeyAt(keys, idx) == TrimSpace(keys[idx + 1])

\* mutants of the cursor advance: no wrap, and no advance
NextIndexNoWrap(keys, idx) == idx + 1

NextIndexStuck(keys, idx) == idx

\* watson.go 38
NextIndex(keys, idx) == (idx + 1) % Len(keys)

NoKey == [key |-> <<>>, idx |-> 0]

KeyLock(p) ==
    /\ kpc[p] = "idle"
    /\ keyMutex = 0
    /\ Len(keyLog) < MaxCalls
    /\ keyMutex' = p
    /\ kpc' = [kpc EXCEPT ![p] = "init"]
    /\ UNCHANGED <<envApiKeys, apiKeys, keyIndex, kkey, keyLog, envReads>>
    /\ UNCHANGED keyOthers

KeyInit(p) ==
    /\ kpc[p] = "init"
    /\ envReads' = IF ReadsEnv(apiKeys) THEN envReads + 1 ELSE envReads
    /\ IF InitFails(apiKeys, envApiKeys)
       THEN /\ keyLog' = Append(keyLog, [kind |-> "err", key |-> <<>>,
                                           err |-> ErrNoKeys, idx |-> keyIndex])
            /\ keyMutex' = 0
            /\ kpc' = [kpc EXCEPT ![p] = "idle"]
            /\ UNCHANGED apiKeys
       ELSE /\ apiKeys' = PoolAfterInit(apiKeys, envApiKeys)
            /\ kpc' = [kpc EXCEPT ![p] = "read"]
            /\ UNCHANGED <<keyLog, keyMutex>>
    /\ UNCHANGED <<envApiKeys, keyIndex, kkey>>
    /\ UNCHANGED keyOthers

KeyRead(p) ==
    /\ kpc[p] = "read"
    /\ IF IndexPanics(apiKeys, keyIndex)
       THEN /\ keyLog' = Append(keyLog, [kind |-> "panic", key |-> <<>>,
                                           err |-> "index out of range", idx |-> keyIndex])
            /\ keyMutex' = 0
            /\ kpc' = [kpc EXCEPT ![p] = "idle"]
            /\ UNCHANGED kkey
       ELSE /\ kkey' = [kkey EXCEPT ![p] = [key |-> KeyAt(apiKeys, keyIndex), idx |-> keyIndex]]
            /\ kpc' = [kpc EXCEPT ![p] = "advance"]
            /\ UNCHANGED <<keyLog, keyMutex>>
    /\ UNCHANGED <<envApiKeys, apiKeys, keyIndex, envReads>>
    /\ UNCHANGED keyOthers

KeyAdvance(p) ==
    /\ kpc[p] = "advance"
    /\ keyIndex' = NextIndex(apiKeys, keyIndex)
    /\ kpc' = [kpc EXCEPT ![p] = "ret"]
    /\ UNCHANGED <<envApiKeys, apiKeys, keyMutex, kkey, keyLog, envReads>>
    /\ UNCHANGED keyOthers

KeyReturn(p) ==
    /\ kpc[p] = "ret"
    /\ keyLog' = Append(keyLog, [kind |-> "ok", key |-> kkey[p].key,
                                  err |-> "", idx |-> kkey[p].idx])
    /\ keyMutex' = 0
    /\ kpc' = [kpc EXCEPT ![p] = "idle"]
    /\ kkey' = [kkey EXCEPT ![p] = NoKey]
    /\ UNCHANGED <<envApiKeys, apiKeys, keyIndex, envReads>>
    /\ UNCHANGED keyOthers

\* ------------------------------------------------------ IAM token cache
Margin == 60

TokenKeys == { <<"a">>, <<"b">> }

Tokens == { "t1", "t2" }

\* issuer-declared lifetimes (expires_in), in seconds
Lifetimes == { 30, 60, 120 }

\* how far the clock moves in one step
TickSteps == { 30 }

NoEntry == [token |-> "", expiry |-> -1, set |-> FALSE]

NoResp == [kind |-> "none"]

\* what the identity service can answer: transport error, non-200 status,
\* a 200 whose body does not decode, a 200 with a token and a lifetime
IamResponses ==
    { [kind |-> "neterr"], [kind |-> "status"], [kind |-> "badbody"] }
    \cup { [kind |-> "ok", token |-> tk, life |-> l] : tk \in Tokens, l \in Lifetimes }

IamErrText(resp) ==
    CASE resp.kind = "neterr" -> "Post iam: connection failed"
      [] resp.kind = "status" -> "IAM auth failed 401: body"
      [] resp.kind = "badbody" -> "invalid character in IAM response"
      [] OTHER -> ""

\* mutant: the expiry comparison is inverted
TokenHitInverted(cache, k, t) == cache[k].set /\ cache[k].expiry < t

\* watson.go 59-63: a cached entry that has not expired
TokenHit(cache, k, t) == cache[k].set /\ t < cache[k].expiry

\* watson.go 83-101: the exchange failed
ExchangeFailed(resp) == resp.kind \in {"neterr", "status", "badbody"}

\* mutant: a failed exchange drops the key's entry
CacheAfterFailureEvict(cache, k) == [cache EXCEPT ![k] = NoEntry]

\* watson.go 84-101: the error returns leave the cache alone
CacheAfterFailure(cache, k) == cache

\* watson.go 103-106
StoreEntry(cache, k, t, resp) ==
    [cache EXCEPT ![k] = [token |-> resp.token,
                          expiry |-> t + (resp.life - Margin),
                          set |-> TRUE]]

\* nothing was stored for the key since the task called
NoSeen == [won |-> FALSE, token |-> ""]

\* observation, not program state: every task waiting in tokenMutex.Lock()
\* for key tkey[p] notes the token that task p has just stored for it with
\* an issued lifetime above the margin
SeenAfter(seen, pc, keys, p, resp) ==
    [q \in DOMAIN seen |->
        IF /\ q # p
           /\ pc[q] = "blocked"
           /\ keys[q] = keys[p]
           /\ ~ExchangeFailed(resp)
        THEN IF resp.life > Margin
             THEN [won |-> TRUE, token |-> resp.token]
             ELSE NoSeen
        ELSE seen[q]]

NoRet == [kind |-> "none", key |-> <<>>, token |-> "", err |-> "",
          at |-> 0, exp |-> 0, hit |-> FALSE]

Tick ==
    /\ \E d \in TickSteps : now + d <= MaxTime /\ now' = now + d
    /\ UNCHANGED <<keyVars, tokVars, storeVars, dispVars, fnVars, svcVars, reqVars>>

\* watson.go 54-57
TokLock(p, k) ==
    /\ tpc[p] = "idle"
    /\ tokenMutex = 0
    /\ tokenMutex' = p
    /\ tpc' = [tpc EXCEPT ![p] = "check"]
    /\ tkey' = [tkey EXCEPT ![p] = k]
    /\ UNCHANGED <<now, tokenCache, tseen, iamResp, iamCalls, tokRet>>
    /\ UNCHANGED tokOthers

\* watson.go 54-56: the call is made while another task may hold tokenMutex;
\* the caller waits inside tokenMutex.Lock()
TokCall(p, k) ==
    /\ tpc[p] = "idle"
    /\ iamCalls < MaxRaceExchanges
    /\ tpc' = [tpc EXCEPT ![p] = "blocked"]
    /\ tkey' = [tkey EXCEPT ![p] = k]
    /\ tseen' = [tseen EXCEPT ![p] = NoSeen]
    /\ UNCHANGED <<now, tokenCache, tokenMutex, iamResp, iamCalls, tokRet>>
    /\ UNCHANGED tokOthers

\* watson.go 56: tokenMutex.Lock() returns to a waiting caller
TokAcquire(p) ==
    /\ tpc[p] = "blocked"
    /\ tokenMutex = 0
    /\ tokenMutex' = p
    /\ tpc' = [tpc EXCEPT ![p] = "check"]
    /\ UNCHANGED <<now, tokenCache, tkey, tseen, iamResp, iamCalls, tokRet>>
    /\ UNCHANGED tokOthers

\* watson.go 59-63: the cached entry is returned
TokHit(p) ==
    /\ tpc[p] = "check"
    /\ TokenHit(tokenCache, tkey[p], now)
    /\ tokRet' = [kind |-> "ok", key |-> tkey[p], token |-> tokenCache[tkey[p]].token,
                  err |-> "", at |-> now, exp |-> tokenCache[tkey[p]].expiry,
                  hit |-> TRUE]
    /\ tokenMutex' = 0
    /\ tpc' = [tpc EXCEPT ![p] = "idle"]
    /\ tkey' = [tkey EXCEPT ![p] = <<>>]
    /\ UNCHANGED <<now, tokenCache, tseen, iamResp, iamCalls>>
    /\ UNCHANGED tokOthers

\* watson.go 65-83: miss or expiry, the exchange request is sent
TokSend(p) ==
    /\ tpc[p] = "check"
    /\ ~TokenHit(tokenCache, tkey[p], now)
    /\ iamCalls < MaxExchanges
    /\ iamCalls' = iamCalls + 1
    /\ tpc' = [tpc EXCEPT ![p] = "wait"]
    /\ UNCHANGED <<now, tokenCache, tokenMutex, tkey, tseen, iamResp, tokRet>>
    /\ UNCHANGED tokOthers

\* the identity service answers the request in flight
IamReply(p) ==
    /\ tpc[p] = "wait"
    /\ iamResp = NoResp
    /\ \E r \in IamResponses : iamResp' = r
    /\ UNCHANGED <<now, tokenCache, tokenMutex, tpc, tkey, tseen, iamCalls, tokRet>>
    /\ UNCHANGED tokOthers

\* watson.go 83-109: the answer is handled and the call returns
TokFinish(p) ==
    /\ tpc[p] = "wait"
    /\ iamResp # NoResp
    /\ IF ExchangeFailed(iamResp)
       THEN /\ tokenCache' = CacheAfterFailure(tokenCache, tkey[p])
            /\ tokRet' = [kind |-> "err", key |-> tkey[p], token |-> "",
                          err |-> IamErrText(iamResp), at |-> now, exp |-> 0,
                          hit |-> FALSE]
       ELSE /\ tokenCache' = StoreEntry(tokenCache, tkey[p], now, iamResp)
            /\ tokRet' = [kind |-> "ok", key |-> tkey[p], token |-> iamResp.token,
                          err |-> "", at |-> now,
                          exp |-> tokenCache'[tkey[p]].expiry, hit |-> FALSE]
    /\ iamResp' = NoResp
    /\ tokenMutex' = 0
    /\ tpc' = [tpc EXCEPT ![p] = "idle"]
    /\ tkey' = [tkey EXCEPT ![p] = <<>>]
    /\ tseen' = SeenAfter(tseen, tpc, tkey, p, iamResp)
    /\ UNCHANGED <<now, iamCalls>>
    /\ UNCHANGED tokOthers

\* ------------------------------------------------------------ CVE store
\* strings.ToLower on the letters that occur
UpperLetters ==
    <<"A", "B", "C", "D", "E", "F", "G", "H", "I", "J", "K", "L", "M",
      "N", "O", "P", "Q", "R", "S", "T", "U", "V", "W", "X", "Y", "Z">>

LowerLetters ==
    <<"a", "b", "c", "d", "e", "f", "g", "h", "i", "j", "k", "l", "m",
      "n", "o", "p", "q", "r", "s", "t", "u", "v", "w", "x", "y", "z">>

LowerChar(c) ==
    IF \E i \in 1..Len(UpperLetters) : UpperLetters[i] = c
    THEN LowerLetters[CHOOSE i \in 1..Len(UpperLetters) : UpperLetters[i] = c]
    ELSE c

ToLower(s) == [i \in 1..Len(s) |-> LowerChar(s[i])]

\* cve.go 16: 15 * time.Minute, in seconds
freshnessWindow == 900

\* part_004 52: the ticker period, 5 * time.Minute, in seconds
tickerPeriod == 300

\* cve.go 129: the severity threshold 7.0, scores being kept in tenths
scoreThreshold == 70

\* cve.go 119-123
networkVendors ==
    << <<"c", "i", "s", "c", "o">>,
       <<"j", "u", "n", "i", "p", "e", "r">>,
       <<"f", "o", "r", "t", "i", "n", "e", "t">>,
       <<"m", "i", "k", "r", "o", "t", "i", "k">>,
       <<"p", "a", "l", "o", "a", "l", "t", "o">>,
       <<"n", "e", "t", "g", "e", "a", "r">>,
       <<"d", "l", "i", "n", "k">>,
       <<"t", "p", "l", "i", "n", "k">>,
       <<"u", "b", "i", "q", "u", "i", "t", "i">>,
       <<"a", "r", "i", "s", "t", "a">> >>

\* a publication text: its form (RFC3339Nano, RFC3339, or neither) and the
\* instant it denotes
PubNano(t) == [form |-> "nano", t |-> t]

PubSec(t) == [form |-> "sec", t |-> t]

PubBad == [form |-> "bad", t |-> 0]

\* the records the feed can hold: id, vendor, product, score in tenths,
\* published
RecCisco ==
    [id |-> "CVE-1", vendor |-> <<"c", "i", "s", "c", "o">>,
     product |-> <<"i", "o", "s">>, score |-> 98, published |-> PubNano(50)]

RecCiscoCaps ==
    [id |-> "CVE-2", vendor |-> <<"C", "i", "s", "c", "o">>,
     product |-> <<"a", "s", "a">>, score |-> 70, published |-> PubSec(40)]

RecAcme ==
    [id |-> "CVE-3", vendor |-> <<"a", "c", "m", "e">>,
     product |-> <<"w", "e", "b">>, score |-> 90, published |-> PubSec(30)]

RecJuniperLow ==
    [id |-> "CVE-4", vendor |-> <<"J", "U", "N", "I", "P", "E", "R">>,
     product |-> <<"j", "u", "n", "o", "s">>, score |-> 69, published |-> PubSec(50)]

RecBlank ==
    [id |-> "CVE-5", vendor |-> <<>>, product |-> <<>>, score |-> 0, published |-> PubBad]

\* the record lists a decodable feed body can yield (nvd.go 74-108)
Feeds ==
    { <<>>,
      <<RecAcme, RecCisco, RecJuniperLow, RecCiscoCaps>>,
      <<RecAcme, RecJuniperLow>>,
      <<RecBlank>>,
      <<RecCiscoCaps, RecAcme>> }

\* what the feed can answer: a transport error, or a status with a body
\* that either does not decode or decodes to a record list
NvdResponses ==
    { [kind |-> "neterr", status |-> 0, decodes |-> FALSE, items |-> <<>>] }
    \cup { [kind |-> "http", status |-> st, decodes |-> FALSE, items |-> <<>>] :
             st \in {200, 503} }
    \cup { [kind |-> "http", status |-> st, decodes |-> TRUE, items |-> b] :
             st \in {200, 503}, b \in Feeds }

NoFile == [ok |-> FALSE, ts |-> 0, cves |-> <<>>]

\* the cache file a previous run of the program can have left behind
OldFiles ==
    { NoFile,
      [ok |-> TRUE, ts |-> -600, cves |-> <<RecJuniperLow>>],
      [ok |-> TRUE, ts |-> -900, cves |-> <<RecJuniperLow>>] }

\* mutant: whatever is on disk loads
LoadNeverFails(file) == FALSE

\* cve.go 87-100: loadCacheFromFile fails on an absent or undecodable file
LoadFails(file) == ~file.ok

\* mutant: the freshness comparison is inverted
IsFreshInverted(file, t) == ~LoadFails(file) /\ t - file.ts > freshnessWindow

\* cve.go 51: err == nil && time.Since(cache.Timestamp) < freshnessWindow
IsFresh(file, t) == ~LoadFails(file) /\ t - file.ts < freshnessWindow

\* nvd.go 62-73: client.Do fails, or the body does not decode
FetchFails(resp) == resp.kind = "neterr" \/ ~resp.decodes

\* nvd.go 74-110: the items built from a decoded body
FetchedItems(resp) == resp.items

\* cve.go 135-140: the vendor is one of networkVendors
RECURSIVE VendorListed(_, _)
VendorListed(vendor, i) ==
    IF i > Len(networkVendors) THEN FALSE
    ELSE IF vendor = networkVendors[i] THEN TRUE
    ELSE VendorListed(vendor, i + 1)

\* mutant: the vendor is compared without lower-casing
KeepsCVECaseSensitive(c) ==
    ~(c.score < scoreThreshold) /\ VendorListed(c.vendor, 1)

\* mutant: the threshold is exclusive
KeepsCVEStrict(c) ==
    c.score > scoreThreshold /\ VendorListed(ToLower(c.vendor), 1)

\* cve.go 129-140: one round of the filter loop
KeepsCVE(c) ==
    ~(c.score < scoreThreshold) /\ VendorListed(ToLower(c.vendor), 1)

\* cve.go 117-144
RECURSIVE filterNetworkCVEs(_)
filterNetworkCVEs(items) ==
    IF items = <<>> THEN <<>>
    ELSE (IF KeepsCVE(Head(items)) THEN <<Head(items)>> ELSE <<>>)
         \o filterNetworkCVEs(Tail(items))

\* mutant: the fallback appends the unfiltered list to the filtered one
FilteredOrAllMerged(items) == filterNetworkCVEs(items) \o items

\* cve.go 68-72: the filtered list, or every item when the filter keeps none
FilteredOrAll(items) ==
    LET filtered == filterNetworkCVEs(items)
    IN  IF Len(filtered) = 0 THEN items ELSE filtered

\* mutant: a failed fetch empties the in-memory list
MemAfterFetchErrorCleared(mem) == <<>>

\* cve.go 64-66: the error return leaves recentCVEs alone
MemAfterFetchError(mem) == mem

\* mutant: the document is stamped with an instant two windows back
FileWrittenBackdated(items, t) ==
    [ok |-> TRUE, ts |-> t - 2 * freshnessWindow, cves |-> items]

\* cve.go 104-109: the document saveCacheToFile writes
FileWritten(items, t) == [ok |-> TRUE, ts |-> t, cves |-> items]

\* cve.go 110: os.WriteFile either writes the document or fails, and a
\* failed write leaves the old content or a truncated, undecodable file
FilesAfterSave(file, items, t) == { FileWritten(items, t), file, NoFile }

\* cve.go 150-159
GetRecentCVEs(mem) == [i \in 1..Len(mem) |-> mem[i]]

Readers == 1..NumReaders

\* cve.go 40: nobody holds cveMutex
MutexFree == [writer |-> FALSE, pending |-> FALSE, readers |-> 0]

\* mutant: Lock() does not wait for the read holders
CanLockOverReaders(m) == ~m.writer

\* cve.go 53, 76: Lock() waits for the writer and for every read holder
CanLock(m) == ~m.writer /\ m.readers = 0

\* cve.go 152: RLock() waits for the writer, and queues behind a Lock()
\* that is itself waiting for the read holders to leave
CanRLock(m) == ~m.writer /\ ~m.pending

\* the zero value of CVE that make() fills the new slice with
ZeroCVE == [id |-> "", vendor |-> <<>>, product |-> <<>>, score |-> 0, published |-> PubBad]

\* cve.go 156: copy(out, recentCVEs) copies min(len(out), len(recentCVEs))
\* elements into a slice of n elements
CopyInto(n, mem) ==
    [i \in 1..n |-> IF i <= Len(mem) THEN mem[i] ELSE ZeroCVE]

NoSnapLocals == [n |-> 0, out |-> <<>>]

NoEfRet == [kind |-> "none", path |-> "", fetched |-> <<>>, at |-> 0]

\* the feed answers with status 200 and a body that decodes
FeedAvailable(resp) == resp.kind = "http" /\ resp.status = 200 /\ resp.decodes

\* mutant: the refresh loop ends at the first error
LoopStopsOnError(ret) == ret.kind # "err"

\* part_004 38-42, 55-62: the error is logged, startup goes on and the loop
\* continues with the next tick
LoopContinues(ret) == TRUE

\* part_004 52-55: the ticker fires; the clock has moved on by one period
StoreTick ==
    /\ epc = "idle"
    /\ LoopContinues(efRet)
    /\ now + tickerPeriod <= MaxStoreTime
    /\ now' = now + tickerPeriod
    /\ efArmed' = TRUE
    /\ UNCHANGED <<cacheFile, recentCVEs, epc, nvdResp, efItems, fetchLog, efRet>>
    /\ UNCHANGED <<cveMutex, spc, sloc, feedUp>>
    /\ UNCHANGED storeOthers

\* cve.go 49-51: the persisted snapshot loads and is fresh
EFLoadFresh ==
    /\ epc = "idle"
    /\ efArmed
    /\ IsFresh(cacheFile, now)
    /\ efItems' = cacheFile.cves
    /\ epc' = "fileLock"
    /\ efArmed' = FALSE
    /\ UNCHANGED <<now, cacheFile, recentCVEs, nvdResp, fetchLog, efRet>>
    /\ UNCHANGED <<cveMutex, spc, sloc, feedUp>>
    /\ UNCHANGED storeOthers

\* cve.go 53: cveMutex.Lock() on the file path
EFFileLock ==
    /\ epc = "fileLock"
    /\ IF CanLock(cveMutex)
       THEN /\ cveMutex' = [cveMutex EXCEPT !.writer = TRUE, !.pending = FALSE]
            /\ epc' = "fileAdopt"
       ELSE /\ ~cveMutex.pending
            /\ cveMutex' = [cveMutex EXCEPT !.pending = TRUE]
            /\ UNCHANGED epc
    /\ UNCHANGED <<now, cacheFile, recentCVEs, efArmed, nvdResp, efItems, fetchLog, efRet>>
    /\ UNCHANGED <<spc, sloc, feedUp>>
    /\ UNCHANGED storeOthers

\* cve.go 54-58: the file's list is adopted, the lock released
EFFileAdopt ==
    /\ epc = "fileAdopt"
    /\ recentCVEs' = efItems
    /\ cveMutex' = [cveMutex EXCEPT !.writer = FALSE]
    /\ efRet' = [kind |-> "ok", path |-> "file", fetched |-> <<>>, at |-> now]
    /\ epc' = "idle"
    /\ efItems' = <<>>
    /\ UNCHANGED <<now, cacheFile, efArmed, nvdResp, fetchLog>>
    /\ UNCHANGED <<spc, sloc, feedUp>>
    /\ UNCHANGED storeOthers

\* cve.go 49-63, nvd.go 45-62: stale or missing, the feed request is sent
EFSendFetch ==
    /\ epc = "idle"
    /\ efArmed
    /\ ~IsFresh(cacheFile, now)
    /\ fetchLog' = Append(fetchLog, [at |-> now, out |-> "pending",
                                      fileOk |-> ~LoadFails(cacheFile),
                                      fileTs |-> cacheFile.ts])
    /\ epc' = "fetch"
    /\ efArmed' = FALSE
    /\ UNCHANGED <<now, cacheFile, recentCVEs, nvdResp, efItems, efRet>>
    /\ UNCHANGED <<cveMutex, spc, sloc, feedUp>>
    /\ UNCHANGED storeOthers

\* the feed answers the request in flight
NvdReply ==
    /\ epc = "fetch"
    /\ \E r \in NvdResponses :
          /\ feedUp => FeedAvailable(r)
          /\ nvdResp' = r
    /\ epc' = "fetched"
    /\ UNCHANGED <<now, cacheFile, recentCVEs, efArmed, efItems, fetchLog, efRet>>
    /\ UNCHANGED <<cveMutex, spc, sloc, feedUp>>
    /\ UNCHANGED storeOthers

\* nvd.go 62-110, cve.go 63-72: the answer is decoded and filtered, or the
\* call returns the error
EFFetched ==
    /\ epc = "fetched"
    /\ IF FetchFails(nvdResp)
       THEN /\ recentCVEs' = MemAfterFetchError(recentCVEs)
            /\ efRet' = [kind |-> "err", path |-> "fetch", fetched |-> <<>>, at |-> now]
            /\ fetchLog' = [fetchLog EXCEPT ![Len(fetchLog)].out = "err"]
            /\ epc' = "idle"
            /\ nvdResp' = NoResp
            /\ UNCHANGED efItems
       ELSE /\ efItems' = FilteredOrAll(FetchedItems(nvdResp))
            /\ epc' = "save"
            /\ UNCHANGED <<recentCVEs, efRet, fetchLog, nvdResp>>
    /\ UNCHANGED <<now, cacheFile, efArmed>>
    /\ UNCHANGED <<cveMutex, spc, sloc, feedUp>>
    /\ UNCHANGED storeOthers

\* cve.go 74, 102-111: saveCacheToFile, whose errors are dropped
EFSave ==
    /\ epc = "save"
    /\ \E f \in FilesAfterSave(cacheFile, efItems, now) :
          /\ cacheFile' = f
          /\ fetchLog' = [fetchLog EXCEPT ![Len(fetchLog)].out =
                             IF f = FileWritten(efItems, now) THEN "saved" ELSE "unsaved"]
    /\ epc' = "lock"
    /\ UNCHANGED <<now, recentCVEs, efArmed, nvdResp, efItems, efRet>>
    /\ UNCHANGED <<cveMutex, spc, sloc, feedUp>>
    /\ UNCHANGED storeOthers

\* cve.go 76: cveMutex.Lock() on the fetch path
EFLock ==
    /\ epc = "lock"
    /\ IF CanLock(cveMutex)
       THEN /\ cveMutex' = [cveMutex EXCEPT !.writer = TRUE, !.pending = FALSE]
            /\ epc' = "adopt"
       ELSE /\ ~cveMutex.pending
            /\ cveMutex' = [cveMutex EXCEPT !.pending = TRUE]
            /\ UNCHANGED epc
    /\ UNCHANGED <<now, cacheFile, recentCVEs, efArmed, nvdResp, efItems, fetchLog, efRet>>
    /\ UNCHANGED <<spc, sloc, feedUp>>
    /\ UNCHANGED storeOthers

\* cve.go 77-82: the new list replaces the in-memory one, the lock is released
EFAdopt ==
    /\ epc = "adopt"
    /\ recentCVEs' = efItems
    /\ cveMutex' = [cveMutex EXCEPT !.writer = FALSE]
    /\ efRet' = [kind |-> "ok", path |-> "fetch", fetched |-> FetchedItems(nvdResp), at |-> now]
    /\ epc' = "idle"
    /\ nvdResp' = NoResp
    /\ efItems' = <<>>
    /\ UNCHANGED <<now, cacheFile, efArmed, fetchLog>>
    /\ UNCHANGED <<spc, sloc, feedUp>>
    /\ UNCHANGED storeOthers

\* what a reader step leaves alone
readerOthers == <<now, cacheFile, recentCVEs, epc, efArmed, nvdResp, efItems, fetchLog, efRet,
                  feedUp>>

\* cve.go 152: cveMutex.RLock()
SnapRLock(p) ==
    /\ spc[p] = "idle"
    /\ CanRLock(cveMutex)
    /\ cveMutex' = [cveMutex EXCEPT !.readers = @ + 1]
    /\ spc' = [spc EXCEPT ![p] = "locked"]
    /\ UNCHANGED sloc
    /\ UNCHANGED readerOthers
    /\ UNCHANGED storeOthers

\* cve.go 155: out := make([]CVE, len(recentCVEs))
SnapMake(p) ==
    /\ spc[p] = "locked"
    /\ sloc' = [sloc EXCEPT ![p] = [n |-> Len(recentCVEs),
                                    out |-> CopyInto(Len(recentCVEs), <<>>)]]
    /\ spc' = [spc EXCEPT ![p] = "made"]
    /\ UNCHANGED cveMutex
    /\ UNCHANGED readerOthers
    /\ UNCHANGED storeOthers

\* cve.go 156: copy(out, recentCVEs)
SnapCopy(p) ==
    /\ spc[p] = "made"
    /\ sloc' = [sloc EXCEPT ![p].out = CopyInto(sloc[p].n, recentCVEs)]
    /\ spc' = [spc EXCEPT ![p] = "copied"]
    /\ UNCHANGED cveMutex
    /\ UNCHANGED readerOthers
    /\ UNCHANGED storeOthers

\* cve.go 153, 158: the return of out and the deferred RUnlock()
SnapReturn(p) ==
    /\ spc[p] = "copied"
    /\ cveMutex' = [cveMutex EXCEPT !.readers = @ - 1]
    /\ spc' = [spc EXCEPT ![p] = "idle"]
    /\ sloc' = [sloc EXCEPT ![p] = NoSnapLocals]
    /\ UNCHANGED readerOthers
    /\ UNCHANGED storeOthers

\* cve.go 150-159: whichever step reader p is at
SnapStep(p) == SnapRLock(p) \/ SnapMake(p) \/ SnapCopy(p) \/ SnapReturn(p)

\* part_004 52-55: the ticker of the run in which readers are active
SnapTick ==
    /\ epc = "idle"
    /\ LoopContinues(efRet)
    /\ now + tickerPeriod <= MaxSnapshotTime
    /\ now' = now + tickerPeriod
    /\ efArmed' = TRUE
    /\ UNCHANGED <<cacheFile, recentCVEs, epc, nvdResp, efItems, fetchLog, efRet>>
    /\ UNCHANGED <<cveMutex, spc, sloc, feedUp>>
    /\ UNCHANGED storeOthers

\* part_004 52-55: the ticker of the run in which the feed can recover
LiveTick ==
    /\ epc = "idle"
    /\ LoopContinues(efRet)
    /\ now + tickerPeriod <= MaxLiveTime
    /\ now' = now + tickerPeriod
    /\ efArmed' = TRUE
    /\ UNCHANGED <<cacheFile, recentCVEs, epc, nvdResp, efItems, fetchLog, efRet>>
    /\ UNCHANGED <<cveMutex, spc, sloc, feedUp>>
    /\ UNCHANGED storeOthers

\* the feed becomes available and stays so
FeedRecovers ==
    /\ ~feedUp
    /\ feedUp' = TRUE
    /\ UNCHANGED <<now, cacheFile, recentCVEs, epc, efArmed, nvdResp, efItems, fetchLog, efRet>>
    /\ UNCHANGED <<cveMutex, spc, sloc>>
    /\ UNCHANGED storeOthers

\* ------------------------------------------- matcher and formatter
\* cve.go 332: time.Time{}, the instant 0001-01-01T00:00:00Z
zeroInstant == -1

\* an instant of the year 0000, which both layouts of cve.go 326-331 parse
yearZero == -2

\* cve.go 308, 352 and watson.go 120: the cap on records
maxRecords == 5

\* mutant: a text that does not parse counts as the newest instant
parsePublishedLate(pub) ==
    IF pub.form = "nano" \/ pub.form = "sec" THEN pub.t ELSE 100

\* cve.go 324-333
parsePublished(pub) ==
    IF pub.form = "nano" \/ pub.form = "sec" THEN pub.t ELSE zeroInstant

\* strings.Contains
Contains(text, sub) ==
    \E i \in 1..(Len(text) + 1) :
        /\ i + Len(sub) - 1 <= Len(text)
        /\ \A j \in 1..Len(sub) : text[i + j - 1] = sub[j]

\* cve.go 304, 347: the less function, newest first
Newer(a, b) == parsePublished(a.published) > parsePublished(b.published)

\* sort.Slice on a slice of at most 12 elements is an insertion sort:
\* Insert moves x left past every element it is less than
RECURSIVE InsertNewer(_, _)
InsertNewer(sorted, x) ==
    IF sorted # <<>> /\ Newer(x, sorted[Len(sorted)])
    THEN Append(InsertNewer(SubSeq(sorted, 1, Len(sorted) - 1), x), sorted[Len(sorted)])
    ELSE Append(sorted, x)

RECURSIVE SortNewestFirst(_)
SortNewestFirst(items) ==
    IF items = <<>> THEN <<>>
    ELSE InsertNewer(SortNewestFirst(SubSeq(items, 1, Len(items) - 1)), items[Len(items)])

\* mutant: no truncation
CapRecordsOff(items) == items

\* items[:5] when longer
CapRecords(items) ==
    IF Len(items) > maxRecords THEN SubSeq(items, 1, maxRecords) ELSE items

\* cve.go 293-294
MatchesEvent(text, c) ==
    Contains(text, ToLower(c.vendor)) \/ Contains(text, ToLower(c.product))

RECURSIVE MatchingCVEs(_, _)
MatchingCVEs(text, items) ==
    IF items = <<>> THEN <<>>
    ELSE (IF MatchesEvent(text, Head(items)) THEN <<Head(items)>> ELSE <<>>)
         \o MatchingCVEs(text, Tail(items))

\* mutant: no fallback to the most recent records
FindRelevantNoFallback(mem, message) ==
    CapRecords(MatchingCVEs(ToLower(message), GetRecentCVEs(mem)))

\* cve.go 280-320
FindRelevantCVEs(mem, message) ==
    LET items == GetRecentCVEs(mem)
        text == ToLower(message)
        result == MatchingCVEs(text, items)
    IN  IF Len(items) = 0 THEN <<>>
        ELSE IF Len(result) = 0 THEN CapRecords(SortNewestFirst(items))
        ELSE CapRecords(result)

\* sort.Slice sorts up to this many elements by insertion
insertionSortLimit == 12

\* the positions of S whose record has no newer record in S
Newest(items, S) == { i \in S : \A j \in S : ~Newer(items[j], items[i]) }

\* every arrangement of the records at the positions S that is sorted newest
\* first
RECURSIVE SortedOrders(_, _)
SortedOrders(items, S) ==
    IF S = {} THEN { <<>> }
    ELSE UNION { { <<items[i]>> \o rest : rest \in SortedOrders(items, S \ {i}) } :
                 i \in Newest(items, S) }

\* cve.go 302-305: sort.Slice is not a stable sort.  Up to insertionSortLimit
\* elements it is the insertion sort above; on a longer slice records with
\* equal instants can come out in any order
SortSliceOutcomes(items) ==
    IF Len(items) <= insertionSortLimit
    THEN { SortNewestFirst(items) }
    ELSE SortedOrders(items, 1..Len(items))

\* cve.go 280-320 on a cache of any length: what FindRelevantCVEs can return
FindRelevantOutcomes(mem, message) ==
    LET items == GetRecentCVEs(mem)
        text == ToLower(message)
        result == MatchingCVEs(text, items)
    IN  IF Len(items) = 0 THEN { <<>> }
        ELSE IF Len(result) = 0
        THEN { CapRecords(sorted) : sorted \in SortSliceOutcomes(items) }
        ELSE { CapRecords(result) }

\* cve.go 361-364: "N/A", or the score with one decimal
ScoreText(score) ==
    IF score > 0 THEN <<score \div 10, ".", score % 10>> ELSE <<"N/A">>

\* cve.go 366-369: one line of the block
RagLine(c) == [id |-> c.id, vendor |-> c.vendor, product |-> c.product,
               cvss |-> ScoreText(c.score)]

\* cve.go 339-374: the empty text, or the markers around one line per record
BuildCVERagBlockFromList(items) ==
    IF Len(items) = 0 THEN <<>>
    ELSE LET top == CapRecords(SortNewestFirst(items))
         IN  <<"<Rag>">> \o [i \in 1..Len(top) |-> RagLine(top[i])] \o <<"</Rag>">>

\* the caches the matcher is called on: every run of consecutive records of
\* two pools of MaxCache records.  The pools cycle through four vendors in
\* mixed case, one of them the empty vendor in the second pool, with
\* publication instants out of cache order, one text that does not parse and
\* one of the year 0000.
PoolVendor(i, blanks) ==
    CASE i % 4 = 1 -> <<"c", "i", "s", "c", "o">>
      [] i % 4 = 2 -> <<"A", "c", "m", "e">>
      [] i % 4 = 3 -> IF blanks THEN <<>> ELSE <<"a", "r", "i", "s", "t", "a">>
      [] OTHER -> <<"J", "U", "N", "I", "P", "E", "R">>

PoolProduct(i, blanks) ==
    CASE i % 3 = 1 -> <<"I", "O", "S">>
      [] i % 3 = 2 -> IF blanks THEN <<>> ELSE <<"w", "e", "b">>
      [] OTHER -> <<"j", "u", "n", "o", "s">>

PoolPublished(i) ==
    IF i % 7 = 6 THEN PubSec(yearZero)
    ELSE IF i % 5 = 0 THEN PubBad
    ELSE IF i % 2 = 0 THEN PubNano((i * 3) % 7)
    ELSE PubSec((i * 3) % 7)

PoolRecord(i, blanks) ==
    [id |-> i, vendor |-> PoolVendor(i, blanks), product |-> PoolProduct(i, blanks),
     score |-> (i * 37) % 101, published |-> PoolPublished(i)]

Pool(blanks) == [i \in 1..MaxCache |-> PoolRecord(i, blanks)]

MatchStores ==
    { SubSeq(Pool(blanks), a, b) : a \in 1..MaxCache, b \in 0..MaxCache, blanks \in BOOLEAN }

\* the event texts the matcher is called with
MatchTexts ==
    { <<"C", "i", "s", "c", "o", " ", "d", "o", "w", "n">>,
      <<"l", "i", "n", "k">>,
      <<>>,
      <<"a", "c", "m", "e", " ", "i", "o", "s">>,
      <<"c", "i", "s", "c", "o", " ", "A", "C", "M", "E", " ", "j", "u", "n", "i", "p", "e", "r", " ", "a", "r", "i", "s", "t", "a">> }

NoCall == [op |-> "", text |-> <<>>, items |-> <<>>]

\* cve.go 280-320: FindRelevantCVEs(text) on the present cache
CallFindRelevant ==
    /\ \E text \in MatchTexts :
          /\ fnIn' = [op |-> "FindRelevantCVEs", text |-> text, items |-> recentCVEs]
          /\ fnOut' = FindRelevantCVEs(recentCVEs, text)
    /\ UNCHANGED <<keyVars, now, tokVars, storeVars, dispVars, svcVars, reqVars>>

\* cve.go 339-374: BuildCVERagBlockFromList on the cache itself or on what
\* FindRelevantCVEs returned for some text
CallRender ==
    /\ \E items \in {recentCVEs} \cup { FindRelevantCVEs(recentCVEs, t) : t \in MatchTexts } :
          /\ fnIn' = [op |-> "BuildCVERagBlockFromList", text |-> <<>>, items |-> items]
          /\ fnOut' = BuildCVERagBlockFromList(items)
    /\ UNCHANGED <<keyVars, now, tokVars, storeVars, dispVars, svcVars, reqVars>>

\* the caches longer than the insertion sort's limit: runs of consecutive
\* records of a pool of MaxBigCache records without empty names
BigPool == [i \in 1..MaxBigCache |-> PoolRecord(i, FALSE)]

BigStores ==
    { SubSeq(BigPool, a, b) : a \in 1..MaxBigCache, b \in 0..MaxBigCache }

\* cve.go 280-320: FindRelevantCVEs(text) on a cache of up to MaxBigCache
\* records
CallFindRelevantBig ==
    /\ \E text \in MatchTexts :
          /\ fnIn' = [op |-> "FindRelevantCVEs", text |-> text, items |-> recentCVEs]
          /\ fnOut' \in FindRelevantOutcomes(recentCVEs, text)
    /\ UNCHANGED <<keyVars, now, tokVars, storeVars, dispVars, svcVars, reqVars>>

\* --------------------------------------------------- response parsing
\* A generated text is a sequence of characters; besides "{", "}", ",",
\* " " and the junk character "x" it may hold whole JSON members, each
\* standing for the characters of one "name":value pair.
Members ==
    { "sev=high", "sev=bogus", "sev=unknown", "sev#5", "exp=x", "act=y", "act=logs",
      "act=manual" }

MemberName(m) ==
    CASE m \in {"sev=high", "sev=bogus", "sev=unknown", "sev#5"} -> "severity"
      [] m = "exp=x" -> "explanation"
      [] OTHER -> "recommended_action"

\* the member's value is a JSON string (a number does not decode into a
\* string field)
MemberIsString(m) == m # "sev#5"

MemberValue(m) ==
    CASE m = "sev=high" -> "high"
      [] m = "sev=bogus" -> "bogus"
      [] m = "sev=unknown" -> "unknown"
      [] m = "act=logs" -> "Check logs"
      [] m = "act=manual" -> "Manual review required"
      [] m = "exp=x" -> <<"x">>
      [] m = "act=y" -> "y"
      [] OTHER -> ""

\* watson.go 153-166: the scan from position i at brace depth `braces`
RECURSIVE ScanBraces(_, _, _, _)
ScanBraces(text, start, i, braces) ==
    IF i > Len(text) THEN <<>>
    ELSE IF text[i] = "{" THEN ScanBraces(text, start, i + 1, braces + 1)
    ELSE IF text[i] = "}"
         THEN IF braces - 1 = 0 THEN SubSeq(text, start, i)
              ELSE ScanBraces(text, start, i + 1, braces - 1)
    ELSE ScanBraces(text, start, i + 1, braces)

\* mutant: from the first "{" to the last "}" of the text
ExtractToLastBrace(text) ==
    LET opens == { i \in 1..Len(text) : text[i] = "{" }
        closes == { i \in 1..Len(text) : text[i] = "}" }
    IN  IF opens = {} \/ closes = {} THEN <<>>
        ELSE SubSeq(text, CHOOSE i \in opens : \A j \in opens : i <= j,
                          CHOOSE i \in closes : \A j \in closes : j <= i)

\* watson.go 146-167
extractFirstJSON(text) ==
    LET start == IndexOf(text, "{")
    IN  IF start = 0 THEN <<>> ELSE ScanBraces(text, start, start, 0)

NotBlank(c) == c # " "

\* the members of an object text, when it is a JSON object: braces around
\* members separated by commas, white space ignored
ObjectInner(obj) ==
    LET t == SelectSeq(obj, NotBlank) IN SubSeq(t, 2, Len(t) - 1)

JsonWellFormed(obj) ==
    LET t == SelectSeq(obj, NotBlank)
        inner == ObjectInner(obj)
    IN  /\ Len(t) >= 2 /\ t[1] = "{" /\ t[Len(t)] = "}"
        /\ (inner = <<>> \/ Len(inner) % 2 = 1)
        /\ \A i \in 1..Len(inner) :
               IF i % 2 = 1 THEN inner[i] \in Members ELSE inner[i] = ","

\* watson.go 295: json.Unmarshal fails on a malformed text and on a member
\* whose value has the wrong type
UnmarshalFails(obj) ==
    \/ ~JsonWellFormed(obj)
    \/ \E i \in 1..Len(ObjectInner(obj)) :
           ObjectInner(obj)[i] \in Members /\ ~MemberIsString(ObjectInner(obj)[i])

\* the value the last member named `name` gives, `dflt` when there is none
FieldOf(obj, name, dflt) ==
    LET inner == CHOOSE r \in { ObjectInner(obj) } : TRUE
        at == { i \in 1..Len(inner) : inner[i] \in Members /\ MemberName(inner[i]) = name }
    IN  IF at = {} THEN dflt
        ELSE MemberValue(inner[CHOOSE i \in at : \A j \in at : j <= i])

\* watson.go 294-303: the decoded UnifiedResponse
Unmarshal(obj) ==
    [Severity |-> FieldOf(obj, "severity", ""),
     Explanation |-> FieldOf(obj, "explanation", <<>>),
     RecommendedAction |-> FieldOf(obj, "recommended_action", "")]

\* watson.go 283-303
ParseGenerated(raw) ==
    LET cleanJSON == CHOOSE r \in { extractFirstJSON(raw) } : TRUE
    IN  IF cleanJSON = <<>>
        THEN [Severity |-> "unknown", Explanation |-> TrimSpace(raw),
              RecommendedAction |-> "Manual review required"]
        ELSE IF UnmarshalFails(cleanJSON)
        THEN [Severity |-> "unknown", Explanation |-> cleanJSON,
              RecommendedAction |-> "Manual review required"]
        ELSE Unmarshal(cleanJSON)

\* the symbols of the generated texts the parser is called on
ParseAlphabet == {"{", "}", ",", " ", "x", "sev=high", "sev#5", "exp=x", "act=y"}

\* every text of at most MaxTextLen symbols
ParseTexts == UNION { [1..k -> ParseAlphabet] : k \in 0..MaxTextLen }

\* watson.go 284: extractFirstJSON(raw)
CallExtract ==
    /\ fnIn.op = "text"
    /\ fnIn' = [fnIn EXCEPT !.op = "extractFirstJSON"]
    /\ fnOut' = extractFirstJSON(fnIn.text)
    /\ UNCHANGED <<keyVars, now, tokVars, storeVars, dispVars, svcVars, reqVars>>

\* watson.go 283-303: the Verdict made of the generated text
CallParse ==
    /\ fnIn.op = "text"
    /\ fnIn' = [fnIn EXCEPT !.op = "ParseGenerated"]
    /\ fnOut' = ParseGenerated(fnIn.text)
    /\ UNCHANGED <<keyVars, now, tokVars, storeVars, dispVars, svcVars, reqVars>>

\* ------------------------------------------------------------ AI client
\* the generated texts considered
GenTexts ==
    { <<"x", " ", "{", "sev=high", ",", "exp=x", ",", "act=y", "}", " ", "x">>,
      <<"x", "x">>,
      <<" ", "x", " ">>,
      <<"{", "x", "}">>,
      <<"{", "{", "sev=high", "}">>,
      <<"{", "sev=bogus", "}">>,
      <<"{", "sev#5", "}">>,
      <<"{", "}">>,
      <<"{", "sev=unknown", ",", "act=logs", "}">>,
      <<"{", "sev=unknown", ",", "act=manual", "}">>,
      <<>> }

\* what the model endpoint can answer: transport error, non-200 status, a
\* body that does not decode, no results, or a first result with a text
GenResponses ==
    { [kind |-> k, text |-> <<>>] : k \in {"neterr", "status", "badbody", "noresults"} }
    \cup { [kind |-> "text", text |-> t] : t \in GenTexts }

GenErrText(resp) ==
    CASE resp.kind = "neterr" -> "Post watsonx: connection failed"
      [] resp.kind = "status" -> "Watsonx failed 500: body"
      [] resp.kind = "badbody" -> "invalid character in Watsonx response"
      [] resp.kind = "noresults" -> "empty response from Watsonx"
      [] OTHER -> ""

ErrEnvMissing == "Watsonx env vars missing"

\* the identity service's answers considered in the pipeline
PipelineIamResponses ==
    { [kind |-> "neterr"], [kind |-> "status"], [kind |-> "badbody"],
      [kind |-> "ok", token |-> "t1", life |-> 120],
      [kind |-> "ok", token |-> "t2", life |-> 90] }

\* watson.go 25-40 as one step: the key or the error, the pool and the
\* cursor afterwards
getNextAPIKey(keys, idx, raw) ==
    IF InitFails(keys, raw)
    THEN [err |-> ErrNoKeys, panic |-> FALSE, key |-> <<>>, keys |-> keys, idx |-> idx]
    ELSE LET pool == PoolAfterInit(keys, raw)
         IN  IF IndexPanics(pool, idx)
             THEN [err |-> "", panic |-> TRUE, key |-> <<>>, keys |-> pool, idx |-> idx]
             ELSE [err |-> "", panic |-> FALSE, key |-> KeyAt(pool, idx),
                   keys |-> pool, idx |-> NextIndex(pool, idx)]

NoVerdict == [Severity |-> "", Explanation |-> <<>>, RecommendedAction |-> ""]

\* watson.go 198-229: what the prompt embeds
BuildPrompt(event, cves) ==
    [rag |-> BuildCVERagBlockFromList(cves), type |-> event.Type,
     message |-> event.Message]

\* dispatcher.go 7-9, watson.go 191-229: the prompt CallWatsonAI builds from
\* the records DispatchEvent selected for the event
CallBuildPrompt ==
    /\ \E event \in { [Type |-> "syslog", Message |-> t] : t \in MatchTexts } :
          /\ fnIn' = [op |-> "BuildPrompt", text |-> event.Message, items |-> recentCVEs]
          /\ fnOut' = BuildPrompt(event, FindRelevantCVEs(recentCVEs, event.Message)).rag
    /\ UNCHANGED <<keyVars, now, tokVars, storeVars, dispVars, svcVars, reqVars>>

IamRequest(key) == [to |-> "iam", key |-> key, token |-> ""]

\* mutant: the generation request goes out without the token
GenRequestUnauthenticated(key, token) == [to |-> "gen", key |-> key, token |-> ""]

\* watson.go 243-254: the generation request carries the bearer token
GenRequest(key, token) == [to |-> "gen", key |-> key, token |-> token]

\* mutant: a failed exchange is tried once more
RequestsAfterFailureRetry(log, key) == Append(log, IamRequest(key))

\* watson.go 84-101, 185-188: getIAMToken returns the error and CallWatsonAI
\* returns it in turn; nothing more is sent
RequestsAfterFailure(log, key) == log

\* ------------------------------------------------------------ dispatcher
\* mutant: the fallback of the earlier dispatcher (dispatcher.go 25-42)
DegradedVerdictOld(msg) ==
    [Severity |-> "unknown", Explanation |-> <<"AI processing failed: ", msg>>,
     RecommendedAction |-> "Check AI service or logs"]

\* mutant: the fallback carries the parser's action
DegradedVerdictAsManual(msg) ==
    [Severity |-> "unknown", Explanation |-> <<msg>>,
     RecommendedAction |-> "Manual review required"]

\* dispatcher.go 13-17: err.Error() is the explanation
DegradedVerdict(msg) ==
    [Severity |-> "unknown", Explanation |-> <<msg>>,
     RecommendedAction |-> "Check logs"]

Messages ==
    { <<"C", "i", "s", "c", "o", " ", "d", "o", "w", "n">>,
      <<"l", "i", "n", "k">>,
      <<>> }

Events == { [Type |-> "syslog", Message |-> m] : m \in Messages }

NoEvent == [Type |-> "", Message |-> <<>>]

\* no answer of the model endpoint
NoGen == [kind |-> "none", text |-> <<>>]

NoAIRet == [isErr |-> FALSE, panic |-> FALSE, msg |-> "", resp |-> NoVerdict,
            prompt |-> <<>>, gen |-> NoGen]

NoLocals == [key |-> <<>>, token |-> "", cves |-> <<>>]

\* watson.go 174-176, 182, 187, 256-280 and dispatcher.go 10-18:
\* CallWatsonAI returns the error and DispatchEvent the degraded verdict;
\* g is the model endpoint's answer the call received, if it got that far
ReturnErrorAfter(msg, g) ==
    /\ aiRet' = [isErr |-> TRUE, panic |-> FALSE, msg |-> msg, resp |-> NoVerdict,
                 prompt |-> <<>>, gen |-> g]
    /\ dispRet' = DegradedVerdict(msg)
    /\ dpc' = "idle"
    /\ dloc' = NoLocals

ReturnError(msg) == ReturnErrorAfter(msg, NoGen)

\* dispatcher.go 3-8 and watson.go 171-188: the relevant records, the key,
\* the environment check and the token cache look-up, up to the first
\* network request
DispStart(event) ==
    /\ dpc = "idle"
    /\ dispEvent' = event
    /\ \E k \in { getNextAPIKey(apiKeys, keyIndex, envApiKeys) } :
          /\ apiKeys' = k.keys
          /\ keyIndex' = k.idx
          /\ IF k.panic
             THEN /\ aiRet' = [NoAIRet EXCEPT !.panic = TRUE]
                  /\ dispRet' = NoVerdict
                  /\ dpc' = "crashed"
                  /\ dloc' = NoLocals
                  /\ reqLog' = <<>>
                  /\ UNCHANGED tokenCache
             ELSE IF k.err # ""
             THEN ReturnError(k.err) /\ reqLog' = <<>> /\ UNCHANGED tokenCache
             ELSE IF ~envWatsonOk
             THEN ReturnError(ErrEnvMissing) /\ reqLog' = <<>> /\ UNCHANGED tokenCache
             ELSE /\ UNCHANGED <<aiRet, dispRet, tokenCache>>
                  /\ IF TokenHit(tokenCache, k.key, now)
                     THEN /\ dloc' = [key |-> k.key, token |-> tokenCache[k.key].token,
                                      cves |-> FindRelevantCVEs(recentCVEs, event.Message)]
                          /\ reqLog' = << GenRequest(k.key, tokenCache[k.key].token) >>
                          /\ dpc' = "gen"
                     ELSE /\ dloc' = [key |-> k.key, token |-> "",
                                      cves |-> FindRelevantCVEs(recentCVEs, event.Message)]
                          /\ reqLog' = << IamRequest(k.key) >>
                          /\ dpc' = "token"
    /\ UNCHANGED <<envApiKeys, keyMutex, kpc, kkey, keyLog, envReads>>
    /\ UNCHANGED <<tokenMutex, tpc, tkey, tseen, iamResp, iamCalls, tokRet>>
    /\ UNCHANGED <<now, envWatsonOk, storeVars, fnVars, svcVars, reqVars>>

\* watson.go 83-109, 185-188: the identity service answers
DispTokenReply ==
    /\ dpc = "token"
    /\ \E r \in PipelineIamResponses :
          IF ExchangeFailed(r)
          THEN /\ tokenCache' = CacheAfterFailure(tokenCache, dloc.key)
               /\ ReturnError(IamErrText(r))
               /\ reqLog' = RequestsAfterFailure(reqLog, dloc.key)
          ELSE /\ tokenCache' = StoreEntry(tokenCache, dloc.key, now, r)
               /\ dloc' = [dloc EXCEPT !.token = r.token]
               /\ reqLog' = Append(reqLog, GenRequest(dloc.key, r.token))
               /\ dpc' = "gen"
               /\ UNCHANGED <<aiRet, dispRet>>
    /\ UNCHANGED <<keyVars, dispEvent>>
    /\ UNCHANGED <<tokenMutex, tpc, tkey, tseen, iamResp, iamCalls, tokRet>>
    /\ UNCHANGED <<now, envWatsonOk, storeVars, fnVars, svcVars, reqVars>>

\* watson.go 254-304 and dispatcher.go 10-21: the model endpoint answers
DispGenReply ==
    /\ dpc = "gen"
    /\ \E g \in GenResponses :
          IF g.kind # "text"
          THEN ReturnErrorAfter(GenErrText(g), g)
          ELSE \E ai \in { ParseGenerated(g.text) } :
                  /\ aiRet' = [isErr |-> FALSE, panic |-> FALSE, msg |-> "", resp |-> ai,
                               prompt |-> BuildPrompt(dispEvent, dloc.cves), gen |-> g]
                  /\ dispRet' = ai
                  /\ dpc' = "idle"
                  /\ dloc' = NoLocals
    /\ UNCHANGED <<keyVars, tokVars, dispEvent, reqLog>>
    /\ UNCHANGED <<now, envWatsonOk, storeVars, fnVars, svcVars, reqVars>>

\* time passes
PipelineTick ==
    /\ \E d \in TickSteps : now + d <= MaxPipelineTime /\ now' = now + d
    /\ UNCHANGED <<keyVars, tokVars, storeVars, dispVars, fnVars, svcVars, reqVars>>

\* ------------------------------------------- HTTP service (client variant)
\* the values of WATSONX_API_KEYS considered: unset/"", "a", "a,b"
SvcKeyConfigs == { <<>>, <<"a">>, <<"a", ",", "b">> }

\* the environments considered: key list, region, project, whether the listen
\* address can be bound, FORWARD_TO_GATEWAY
SvcEnvs ==
    { [keys |-> k, region |-> r, project |-> p, portFree |-> f, forward |-> g] :
        k \in SvcKeyConfigs, r \in {"", "us-south"}, p \in {"", "proj"},
        f \in BOOLEAN, g \in BOOLEAN }

\* ai/watson.go 43-47: the key list is split only when it is not empty
ConfigAPIKeys(raw) == IF raw # <<>> THEN Split(raw) ELSE <<>>

\* ai/watson.go 98-106: no key, no region or no project
ConstructFails(env) ==
    \/ Len(ConfigAPIKeys(env.keys)) = 0
    \/ env.region = ""
    \/ env.project = ""

\* the zero value of the package variable and of a failed construction
NilClient ==
    [nil |-> TRUE, APIKeys |-> <<>>, keyIndex |-> 0,
     tokenCache |-> [k \in TokenKeys |-> NoEntry]]

\* ai/watson.go 97-119
NewDefaultWatsonClient(env) ==
    IF ConstructFails(env)
    THEN NilClient
    ELSE [nil |-> FALSE, APIKeys |-> ConfigAPIKeys(env.keys), keyIndex |-> 0,
          tokenCache |-> [k \in TokenKeys |-> NoEntry]]

\* mutant: the earlier main stops when the client cannot be constructed
\* (unnamed/part_002 40-42)
StartsOnlyWithClient(client) == ~client.nil

\* unnamed/part_003 41-45: a failed construction is only logged
StartsDegraded(client) == TRUE

\* mutant: the handler does not look at the client
ClientMissingIgnored(client) == FALSE

\* unnamed/part_003 120: watsonClient == nil
ClientMissing(client) == client.nil

\* the request bodies considered: not JSON, and JSON with and without the
\* required fields
SvcBodies ==
    { [json |-> FALSE, Type |-> "", Message |-> <<>>, Severity |-> ""] }
    \cup { [json |-> TRUE, Type |-> ty, Message |-> m, Severity |-> "low"] :
             ty \in {"", "syslog"}, m \in {<<>>, <<"l", "i", "n", "k">>} }

\* unnamed/part_003 87-95, 111: ShouldBindJSON with the two required fields
BindFails(body) == ~body.json \/ body.Type = "" \/ body.Message = <<>>

NoBody == [json |-> FALSE, Type |-> "", Message |-> <<>>, Severity |-> ""]

NoResponse == [status |-> 0, error |-> "", severity |-> "", explanation |-> <<>>,
               action |-> ""]

NoHandlerLocals == [key |-> <<>>, analyzed |-> FALSE, sent |-> <<>>, err |-> "",
                    forwarded |-> FALSE]

\* unnamed/part_003 112-113
BadRequest ==
    [status |-> 400, error |-> "validation", severity |-> "", explanation |-> <<>>,
     action |-> ""]

\* unnamed/part_003 122-129
NotConfigured(body) ==
    [status |-> 503, error |-> "AI service not configured",
     severity |-> body.Severity,
     explanation |-> <<"AI processing unavailable - Watson API keys not configured">>,
     action |-> "Configure WATSONX_API_KEYS environment variable"]

\* unnamed/part_003 142-149
ProcessingFailed ==
    [status |-> 503, error |-> "AI processing failed", severity |-> "unknown",
     explanation |-> <<"AI processing unavailable - manual review required">>,
     action |-> "Check AI service logs and Watson API connectivity"]

\* unnamed/part_003 153-169
Analyzed(result) ==
    [status |-> 200, error |-> "", severity |-> result.Severity,
     explanation |-> result.Explanation, action |-> result.RecommendedAction]

\* the recovery middleware answers a panic of the handler (unnamed/part_003 57)
Recovered ==
    [status |-> 500, error |-> "panic", severity |-> "", explanation |-> <<>>,
     action |-> ""]

\* ai/watson.go 123-130: the key under the cursor, the cursor moved on
ClientNextKey(client) ==
    [key |-> client.APIKeys[client.keyIndex + 1],
     idx |-> (client.keyIndex + 1) % Len(client.APIKeys)]

\* ai/watson.go 162-181, 251-277: the error texts of Analyze
SvcIamErrText(resp) ==
    CASE resp.kind = "neterr" -> "IAM request failed"
      [] resp.kind = "status" -> "IAM auth failed with status 401"
      [] resp.kind = "badbody" -> "failed to decode IAM response"
      [] OTHER -> ""

SvcGenErrText(resp) ==
    CASE resp.kind = "neterr" -> "Watson request failed"
      [] resp.kind = "status" -> "Watson returned status 500"
      [] resp.kind = "badbody" -> "failed to decode Watson response"
      [] resp.kind = "noresults" -> "empty response from Watson"
      [] OTHER -> ""

\* ai/watson.go 312-334: the explanation of a text without an object is the
\* text as generated
ParseResponse(text) ==
    LET cleanJSON == CHOOSE r \in { extractFirstJSON(text) } : TRUE
    IN  IF cleanJSON = <<>>
        THEN [Severity |-> "unknown", Explanation |-> text,
              RecommendedAction |-> "Manual review required"]
        ELSE IF UnmarshalFails(cleanJSON)
        THEN [Severity |-> "unknown", Explanation |-> cleanJSON,
              RecommendedAction |-> "Manual review required"]
        ELSE Unmarshal(cleanJSON)

\* unnamed/part_003 38-45: main constructs the client and goes on without it
SvcBoot ==
    /\ mpc = "boot"
    /\ \E c \in { NewDefaultWatsonClient(svcEnv) } :
          /\ watsonClient' = c
          /\ mpc' = IF StartsDegraded(c) THEN "run" ELSE "exited"
    /\ UNCHANGED <<svcEnv, hpc, hreq, hloc, hresp>>
    /\ UNCHANGED <<keyVars, now, tokVars, storeVars, dispVars, fnVars, reqVars>>

\* unnamed/part_003 79-83: router.Run serves, or the process exits when the
\* address cannot be bound
SvcRun ==
    /\ mpc = "run"
    /\ mpc' = IF svcEnv.portFree THEN "serving" ELSE "exited"
    /\ UNCHANGED <<svcEnv, watsonClient, hpc, hreq, hloc, hresp>>
    /\ UNCHANGED <<keyVars, now, tokVars, storeVars, dispVars, fnVars, reqVars>>

\* unnamed/part_003 108-139 and ai/watson.go 209-214, 123-142: bind, the
\* client check, the key and the token cache look-up, up to the first
\* network request
SvcHandle(body) ==
    /\ mpc = "serving"
    /\ hpc = "idle"
    /\ hreq' = body
    /\ IF BindFails(body)
       THEN /\ hresp' = BadRequest
            /\ hloc' = NoHandlerLocals
            /\ UNCHANGED <<watsonClient, hpc>>
       ELSE IF ClientMissing(watsonClient)
       THEN /\ hresp' = NotConfigured(body)
            /\ hloc' = NoHandlerLocals
            /\ UNCHANGED <<watsonClient, hpc>>
       ELSE IF watsonClient.nil
       THEN /\ hresp' = Recovered
            /\ hloc' = [NoHandlerLocals EXCEPT !.analyzed = TRUE]
            /\ UNCHANGED <<watsonClient, hpc>>
       ELSE \E k \in { ClientNextKey(watsonClient) } :
               /\ watsonClient' = [watsonClient EXCEPT !.keyIndex = k.idx]
               /\ hresp' = NoResponse
               /\ IF TokenHit(watsonClient.tokenCache, k.key, now)
                  THEN /\ hloc' = [NoHandlerLocals EXCEPT
                                     !.key = k.key, !.analyzed = TRUE,
                                     !.sent = << GenRequest(k.key,
                                                   watsonClient.tokenCache[k.key].token) >>]
                       /\ hpc' = "gen"
                  ELSE /\ hloc' = [NoHandlerLocals EXCEPT
                                     !.key = k.key, !.analyzed = TRUE,
                                     !.sent = << IamRequest(k.key) >>]
                       /\ hpc' = "token"
    /\ UNCHANGED <<svcEnv, mpc>>
    /\ UNCHANGED <<keyVars, now, tokVars, storeVars, dispVars, fnVars, reqVars>>

\* ai/watson.go 161-191, 213-216 and unnamed/part_003 140-151: the identity
\* service answers
SvcTokenReply ==
    /\ hpc = "token"
    /\ \E r \in PipelineIamResponses :
          IF ExchangeFailed(r)
          THEN /\ watsonClient' = [watsonClient EXCEPT
                                     !.tokenCache = CacheAfterFailure(@, hloc.key)]
               /\ hloc' = [hloc EXCEPT !.err = SvcIamErrText(r),
                                        !.sent = RequestsAfterFailure(@, hloc.key)]
               /\ hresp' = ProcessingFailed
               /\ hpc' = "idle"
          ELSE /\ watsonClient' = [watsonClient EXCEPT
                                     !.tokenCache = StoreEntry(@, hloc.key, now, r)]
               /\ hloc' = [hloc EXCEPT !.sent = Append(@, GenRequest(hloc.key, r.token))]
               /\ hpc' = "gen"
               /\ UNCHANGED hresp
    /\ UNCHANGED <<svcEnv, mpc, hreq>>
    /\ UNCHANGED <<keyVars, now, tokVars, storeVars, dispVars, fnVars, reqVars>>

\* ai/watson.go 251-281 and unnamed/part_003 139-169: the model endpoint
\* answers
SvcGenReply ==
    /\ hpc = "gen"
    /\ \E g \in GenResponses :
          IF g.kind # "text"
          THEN /\ hloc' = [hloc EXCEPT !.err = SvcGenErrText(g)]
               /\ hresp' = ProcessingFailed
          ELSE /\ hloc' = [hloc EXCEPT !.forwarded = svcEnv.forward]
               /\ hresp' = Analyzed(ParseResponse(g.text))
    /\ hpc' = "idle"
    /\ UNCHANGED <<svcEnv, watsonClient, mpc, hreq>>
    /\ UNCHANGED <<keyVars, now, tokVars, storeVars, dispVars, fnVars, reqVars>>

\* ------------------------------------------------------ specifications
KeysStart ==
    /\ envApiKeys \in KeyConfigs
    /\ apiKeys = <<>>
    /\ keyIndex = 0
    /\ keyMutex = 0
    /\ kpc = [p \in Tasks |-> "idle"]
    /\ kkey = [p \in Tasks |-> NoKey]
    /\ keyLog = <<>>
    /\ envReads = 0

KeysIdle ==
    /\ envApiKeys = <<>>
    /\ apiKeys = <<>>
    /\ keyIndex = 0
    /\ keyMutex = 0
    /\ kpc = [p \in Tasks |-> "idle"]
    /\ kkey = [p \in Tasks |-> NoKey]
    /\ keyLog = <<>>
    /\ envReads = 0

TokensIdle ==
    /\ tokenCache = [k \in TokenKeys |-> NoEntry]
    /\ tokenMutex = 0
    /\ tpc = [p \in Tasks |-> "idle"]
    /\ tkey = [p \in Tasks |-> <<>>]
    /\ tseen = [p \in Tasks |-> NoSeen]
    /\ iamResp = NoResp
    /\ iamCalls = 0
    /\ tokRet = NoRet

StoreIdle ==
    /\ cacheFile = NoFile
    /\ recentCVEs = <<>>
    /\ epc = "idle"
    /\ efArmed = FALSE
    /\ nvdResp = NoResp
    /\ efItems = <<>>
    /\ fetchLog = <<>>
    /\ efRet = NoEfRet
    /\ cveMutex = MutexFree
    /\ spc = [p \in Readers |-> "idle"]
    /\ sloc = [p \in Readers |-> NoSnapLocals]
    /\ feedUp = FALSE

DispIdle ==
    /\ envWatsonOk = TRUE
    /\ dispEvent = NoEvent
    /\ aiRet = NoAIRet
    /\ dispRet = NoVerdict
    /\ reqLog = <<>>
    /\ dpc = "idle"
    /\ dloc = NoLocals

\* ------------------------------------------- request path on the shared list
\* A slice is the backing array it points into and its length.  The arrays
\* are the one behind the package variable recentCVEs ("mem"), the one
\* GetRecentCVEs makes ("items") and the one append builds for the matching
\* records ("result"); the nil slice points nowhere.
NilSlice == [arr |-> "nil", len |-> 0]

NoReqLocals ==
    [text |-> <<>>, snap |-> <<>>, items |-> NilSlice, result |-> NilSlice,
     itemsArr |-> <<>>, resultArr |-> <<>>, rag |-> <<>>]

\* mutant: the accessor hands out the package variable's own slice
SnapshotShared(mem) ==
    [slice |-> [arr |-> "mem", len |-> Len(mem)], made |-> <<>>]

\* cve.go 155-158: the accessor returns a slice of a new array that holds a
\* copy of the records
SnapshotSlice(mem) ==
    [slice |-> [arr |-> "items", len |-> Len(mem)], made |-> GetRecentCVEs(mem)]

\* the content of a backing array
ArrayOf(name, mem, loc) ==
    CASE name = "mem" -> mem
      [] name = "items" -> loc.itemsArr
      [] name = "result" -> loc.resultArr
      [] OTHER -> <<>>

\* the records a slice shows
View(slice, mem, loc) == SubSeq(ArrayOf(slice.arr, mem, loc), 1, slice.len)

\* sort.Slice(s, ...) writes the sorted records into the array s points
\* into, over the positions s covers: the array called name afterwards
ArrayAfterSort(name, slice, sorted, mem, loc) ==
    LET old == ArrayOf(name, mem, loc)
    IN  IF slice.arr = name
        THEN sorted \o SubSeq(old, slice.len + 1, Len(old))
        ELSE old

\* s[:5] when longer: the same array, a shorter length
CapSlice(slice) ==
    [slice EXCEPT !.len = IF slice.len > maxRecords THEN maxRecords ELSE slice.len]

\* what a step of the request leaves alone in the store
reqStoreOthers == <<cacheFile, epc, efArmed, nvdResp, efItems, fetchLog, efRet,
                    cveMutex, spc, sloc, feedUp>>

reqOthers == <<keyVars, now, tokVars, dispVars, fnVars, svcVars>>

\* dispatcher.go 7, cve.go 282 and 150-159: FindRelevantCVEs asks the accessor
\* for the records, under the read lock
ReqSnapshot(text) ==
    /\ rpc = "idle"
    /\ CanRLock(cveMutex)
    /\ \E s \in { SnapshotSlice(recentCVEs) } :
          rloc' = [NoReqLocals EXCEPT !.text = text, !.snap = recentCVEs,
                                      !.items = s.slice, !.itemsArr = s.made]
    /\ rpc' = "match"
    /\ UNCHANGED recentCVEs
    /\ UNCHANGED reqStoreOthers
    /\ UNCHANGED reqOthers

\* cve.go 283-298, 315-319: the empty list, or the matching records appended
\* to a new array and cut to five
ReqMatch ==
    /\ rpc = "match"
    /\ LET items == View(rloc.items, recentCVEs, rloc)
           result == MatchingCVEs(ToLower(rloc.text), items)
       IN  IF Len(items) = 0
           THEN /\ rloc' = [rloc EXCEPT !.result = NilSlice]
                /\ rpc' = "render"
           ELSE IF Len(result) = 0
           THEN /\ UNCHANGED rloc
                /\ rpc' = "sort"
           ELSE /\ rloc' = [rloc EXCEPT
                              !.resultArr = result,
                              !.result = CapSlice([arr |-> "result", len |-> Len(result)])]
                /\ rpc' = "render"
    /\ UNCHANGED recentCVEs
    /\ UNCHANGED reqStoreOthers
    /\ UNCHANGED reqOthers

\* cve.go 301-313: no match, items is sorted in place and cut to five
ReqFallback ==
    /\ rpc = "sort"
    /\ \E sorted \in SortSliceOutcomes(View(rloc.items, recentCVEs, rloc)) :
          /\ recentCVEs' = ArrayAfterSort("mem", rloc.items, sorted, recentCVEs, rloc)
          /\ rloc' = [rloc EXCEPT
                        !.itemsArr = ArrayAfterSort("items", rloc.items, sorted,
                                                    recentCVEs, rloc),
                        !.result = CapSlice(rloc.items)]
    /\ rpc' = "render"
    /\ UNCHANGED reqStoreOthers
    /\ UNCHANGED reqOthers

\* dispatcher.go 9, watson.go 191, cve.go 339-374: CallWatsonAI renders the
\* slice it was given, which BuildCVERagBlockFromList sorts in place first
ReqRender ==
    /\ rpc = "render"
    /\ LET given == View(rloc.result, recentCVEs, rloc)
       IN  IF Len(given) = 0
           THEN /\ rloc' = [rloc EXCEPT !.rag = <<>>]
                /\ UNCHANGED recentCVEs
           ELSE \E sorted \in SortSliceOutcomes(given) :
                   /\ recentCVEs' = ArrayAfterSort("mem", rloc.result, sorted,
                                                   recentCVEs, rloc)
                   /\ rloc' = [rloc EXCEPT
                                 !.itemsArr = ArrayAfterSort("items", rloc.result, sorted,
                                                             recentCVEs, rloc),
                                 !.resultArr = ArrayAfterSort("result", rloc.result, sorted,
                                                              recentCVEs, rloc),
                                 !.rag = BuildCVERagBlockFromList(given)]
    /\ rpc' = "done"
    /\ UNCHANGED reqStoreOthers
    /\ UNCHANGED reqOthers

\* dispatcher.go 9-20: the call returns, the request's arrays are dropped
ReqReturn ==
    /\ rpc = "done"
    /\ rpc' = "idle"
    /\ rloc' = NoReqLocals
    /\ UNCHANGED recentCVEs
    /\ UNCHANGED reqStoreOthers
    /\ UNCHANGED reqOthers

\* the lists in memory when the requests arrive: the first b records of the
\* two pools, with identifiers of the feed's kind
RequestIds ==
    << "CVE-11", "CVE-12", "CVE-13", "CVE-14", "CVE-15", "CVE-16", "CVE-17", "CVE-18",
       "CVE-19", "CVE-20" >>

RequestPool(blanks) ==
    [i \in 1..MaxCache |-> [PoolRecord(i, blanks) EXCEPT !.id = RequestIds[i]]]

RequestStores ==
    { SubSeq(RequestPool(blanks), 1, b) : b \in 0..MaxCache, blanks \in BOOLEAN }

\* no request is being served
ReqIdle == rpc = "idle" /\ rloc = NoReqLocals

FnIdle == fnIn = NoCall /\ fnOut = <<>>

\* the service has not been started
SvcIdle ==
    /\ svcEnv = [keys |-> <<>>, region |-> "", project |-> "", portFree |-> FALSE,
                 forward |-> FALSE]
    /\ watsonClient = NilClient
    /\ mpc = "off"
    /\ hpc = "idle"
    /\ hreq = NoBody
    /\ hloc = NoHandlerLocals
    /\ hresp = NoResponse

InitKeys == KeysStart /\ now = 0 /\ TokensIdle /\ StoreIdle /\ DispIdle /\ FnIdle /\ SvcIdle /\ ReqIdle

NextKeys ==
    \E p \in Tasks :
        \/ KeyLock(p)
        \/ KeyInit(p)
        \/ KeyRead(p)
        \/ KeyAdvance(p)
        \/ KeyReturn(p)

SpecKeys == InitKeys /\ [][NextKeys]_vars

InitToken == KeysIdle /\ now = 0 /\ TokensIdle /\ StoreIdle /\ DispIdle /\ FnIdle /\ SvcIdle /\ ReqIdle

NextToken ==
    \/ \E p \in Tasks :
           \/ \E k \in TokenKeys : TokLock(p, k)
           \/ TokHit(p)
           \/ TokSend(p)
           \/ IamReply(p)
           \/ TokFinish(p)
    \/ Tick

SpecToken == InitToken /\ [][NextToken]_vars

\* concurrent callers of getIAMToken: calls are made at any moment and wait
\* for tokenMutex
InitRace == KeysIdle /\ now = 0 /\ TokensIdle /\ StoreIdle /\ DispIdle /\ FnIdle /\ SvcIdle /\ ReqIdle

NextRace ==
    \/ \E p \in Tasks :
           \/ \E k \in TokenKeys : TokCall(p, k)
           \/ TokAcquire(p)
           \/ TokHit(p)
           \/ TokSend(p)
           \/ IamReply(p)
           \/ TokFinish(p)
    \/ Tick

SpecRace == InitRace /\ [][NextRace]_vars

\* part_004 36: the program starts with whatever file an earlier run left,
\* an empty in-memory list, and the startup call due
InitStore ==
    /\ KeysIdle /\ TokensIdle /\ DispIdle /\ FnIdle /\ SvcIdle /\ ReqIdle
    /\ now = 0
    /\ cacheFile \in OldFiles
    /\ recentCVEs = <<>>
    /\ epc = "idle"
    /\ efArmed = TRUE
    /\ nvdResp = NoResp
    /\ efItems = <<>>
    /\ fetchLog = <<>>
    /\ efRet = NoEfRet
    /\ cveMutex = MutexFree
    /\ spc = [p \in Readers |-> "idle"]
    /\ sloc = [p \in Readers |-> NoSnapLocals]
    /\ feedUp = FALSE

NextStore ==
    \/ StoreTick
    \/ EFLoadFresh
    \/ EFFileLock
    \/ EFFileAdopt
    \/ EFSendFetch
    \/ NvdReply
    \/ EFFetched
    \/ EFSave
    \/ EFLock
    \/ EFAdopt

SpecStore == InitStore /\ [][NextStore]_vars

\* the store with a feed that can recover for good.  The ticker keeps
\* firing, every step of EnsureRecentNetworkCVEs is taken once it can be,
\* and the request ends with an answer or an error within the client's
\* timeout (nvd.go 62).
NextLive ==
    \/ LiveTick
    \/ FeedRecovers
    \/ EFLoadFresh
    \/ EFFileLock
    \/ EFFileAdopt
    \/ EFSendFetch
    \/ NvdReply
    \/ EFFetched
    \/ EFSave
    \/ EFLock
    \/ EFAdopt

SpecLive ==
    /\ InitStore
    /\ [][NextLive]_vars
    /\ WF_vars(LiveTick)
    /\ WF_vars(EFLoadFresh) /\ WF_vars(EFFileLock) /\ WF_vars(EFFileAdopt)
    /\ WF_vars(EFSendFetch) /\ WF_vars(NvdReply) /\ WF_vars(EFFetched)
    /\ WF_vars(EFSave) /\ WF_vars(EFLock) /\ WF_vars(EFAdopt)

\* the store with reader tasks calling GetRecentCVEs at any moment
InitSnapshot ==
    /\ KeysIdle /\ TokensIdle /\ DispIdle /\ FnIdle /\ SvcIdle /\ ReqIdle
    /\ now = 0
    /\ cacheFile \in OldFiles
    /\ recentCVEs = <<>>
    /\ epc = "idle"
    /\ efArmed = TRUE
    /\ nvdResp = NoResp
    /\ efItems = <<>>
    /\ fetchLog = <<>>
    /\ efRet = NoEfRet
    /\ cveMutex = MutexFree
    /\ spc = [p \in Readers |-> "idle"]
    /\ sloc = [p \in Readers |-> NoSnapLocals]
    /\ feedUp = FALSE

NextSnapshot ==
    \/ SnapTick
    \/ EFLoadFresh
    \/ EFFileLock
    \/ EFFileAdopt
    \/ EFSendFetch
    \/ NvdReply
    \/ EFFetched
    \/ EFSave
    \/ EFLock
    \/ EFAdopt
    \/ \E p \in Readers : SnapRLock(p)
    \/ \E p \in Readers : SnapMake(p)
    \/ \E p \in Readers : SnapCopy(p)
    \/ \E p \in Readers : SnapReturn(p)

SpecSnapshot == InitSnapshot /\ [][NextSnapshot]_vars

\* requests served while the refresh loop runs: memory holds the list an
\* earlier refresh left, the ticker has just fired
InitRequest ==
    /\ KeysIdle /\ TokensIdle /\ DispIdle /\ FnIdle /\ SvcIdle
    /\ now = 0
    /\ cacheFile \in OldFiles
    /\ recentCVEs \in RequestStores
    /\ epc = "idle"
    /\ efArmed = TRUE
    /\ nvdResp = NoResp
    /\ efItems = <<>>
    /\ fetchLog = <<>>
    /\ efRet = NoEfRet
    /\ cveMutex = MutexFree
    /\ spc = [p \in Readers |-> "idle"]
    /\ sloc = [p \in Readers |-> NoSnapLocals]
    /\ feedUp = FALSE
    /\ ReqIdle

NextRequest ==
    \/ \E text \in MatchTexts : ReqSnapshot(text)
    \/ ReqMatch
    \/ ReqFallback
    \/ ReqRender
    \/ ReqReturn
    \/ EFLoadFresh
    \/ EFFileLock
    \/ EFFileAdopt
    \/ EFSendFetch
    \/ NvdReply
    \/ EFFetched
    \/ EFSave
    \/ EFLock
    \/ EFAdopt

SpecRequest == InitRequest /\ [][NextRequest]_vars

\* the matcher and the formatter called directly on every cache of MatchStores
InitMatch ==
    /\ KeysIdle /\ TokensIdle /\ DispIdle /\ FnIdle /\ SvcIdle /\ ReqIdle
    /\ now = 0
    /\ cacheFile = NoFile
    /\ recentCVEs \in MatchStores
    /\ epc = "idle"
    /\ efArmed = FALSE
    /\ nvdResp = NoResp
    /\ efItems = <<>>
    /\ fetchLog = <<>>
    /\ efRet = NoEfRet
    /\ cveMutex = MutexFree
    /\ spc = [p \in Readers |-> "idle"]
    /\ sloc = [p \in Readers |-> NoSnapLocals]
    /\ feedUp = FALSE

NextMatch == CallFindRelevant \/ CallRender \/ CallBuildPrompt

SpecMatch == InitMatch /\ [][NextMatch]_vars

\* the matcher called directly on caches of up to MaxBigCache records
InitSort ==
    /\ KeysIdle /\ TokensIdle /\ DispIdle /\ FnIdle /\ SvcIdle /\ ReqIdle
    /\ now = 0
    /\ cacheFile = NoFile
    /\ recentCVEs \in BigStores
    /\ epc = "idle"
    /\ efArmed = FALSE
    /\ nvdResp = NoResp
    /\ efItems = <<>>
    /\ fetchLog = <<>>
    /\ efRet = NoEfRet
    /\ cveMutex = MutexFree
    /\ spc = [p \in Readers |-> "idle"]
    /\ sloc = [p \in Readers |-> NoSnapLocals]
    /\ feedUp = FALSE

NextSort == CallFindRelevantBig

SpecSort == InitSort /\ [][NextSort]_vars

\* the extractor and the parser called directly on every text of ParseTexts
InitParse ==
    /\ KeysIdle /\ TokensIdle /\ StoreIdle /\ DispIdle
    /\ now = 0
    /\ fnIn \in { [op |-> "text", text |-> t, items |-> <<>>] : t \in ParseTexts }
    /\ fnOut = <<>>
    /\ SvcIdle /\ ReqIdle

NextParse == CallExtract \/ CallParse

SpecParse == InitParse /\ [][NextParse]_vars

\* the configurations the pipeline is run under: unset, and "a, b"
PipelineKeyConfigs == { <<>>, <<"a", ",", " ", "b">> }

\* the keys they can put in the pool
PipelineKeys == { <<"a">>, <<"b">> }

\* the in-memory lists the pipeline is run against
PipelineStores ==
    { <<>>,
      <<RecAcme, RecCisco, RecJuniperLow, RecCiscoCaps>>,
      <<RecBlank, RecAcme>> }

InitDispatch ==
    /\ envApiKeys \in PipelineKeyConfigs
    /\ envWatsonOk \in BOOLEAN
    /\ apiKeys = <<>>
    /\ keyIndex = 0
    /\ keyMutex = 0
    /\ kpc = [p \in Tasks |-> "idle"]
    /\ kkey = [p \in Tasks |-> NoKey]
    /\ keyLog = <<>>
    /\ envReads = 0
    /\ now = 0
    /\ tokenCache = [k \in PipelineKeys |-> NoEntry]
    /\ tokenMutex = 0
    /\ tpc = [p \in Tasks |-> "idle"]
    /\ tkey = [p \in Tasks |-> <<>>]
    /\ tseen = [p \in Tasks |-> NoSeen]
    /\ iamResp = NoResp
    /\ iamCalls = 0
    /\ tokRet = NoRet
    /\ cacheFile = NoFile
    /\ recentCVEs \in PipelineStores
    /\ epc = "idle"
    /\ efArmed = FALSE
    /\ nvdResp = NoResp
    /\ efItems = <<>>
    /\ fetchLog = <<>>
    /\ efRet = NoEfRet
    /\ cveMutex = MutexFree
    /\ spc = [p \in Readers |-> "idle"]
    /\ sloc = [p \in Readers |-> NoSnapLocals]
    /\ feedUp = FALSE
    /\ dispEvent = NoEvent
    /\ aiRet = NoAIRet
    /\ dispRet = NoVerdict
    /\ reqLog = <<>>
    /\ dpc = "idle"
    /\ dloc = NoLocals
    /\ fnIn = NoCall
    /\ fnOut = <<>>
    /\ SvcIdle /\ ReqIdle

NextDispatch ==
    \/ \E e \in Events : DispStart(e)
    \/ DispTokenReply
    \/ DispGenReply
    \/ PipelineTick

SpecDispatch == InitDispatch /\ [][NextDispatch]_vars

\* the HTTP service of the client variant: main, then requests one at a time
InitService ==
    /\ KeysIdle /\ TokensIdle /\ StoreIdle /\ DispIdle /\ FnIdle /\ ReqIdle
    /\ now = 0
    /\ svcEnv \in SvcEnvs
    /\ watsonClient = NilClient
    /\ mpc = "boot"
    /\ hpc = "idle"
    /\ hreq = NoBody
    /\ hloc = NoHandlerLocals
    /\ hresp = NoResponse

NextService ==
    \/ SvcBoot
    \/ SvcRun
    \/ \E b \in SvcBodies : SvcHandle(b)
    \/ SvcTokenReply
    \/ SvcGenReply
    \/ PipelineTick

SpecService == InitService /\ [][NextService]_vars

\* ---------------------------------------------- rotator: properties
\* C1: DispatchEvent never crashes and never hands an error to its caller:
\* every call that has returned left a Verdict, for every event and every
\* outcome of the key rotator, the environment check, the token exchange
\* and the model call, and with an empty CVE list as well.  Whenever
\* CallWatsonAI returned an error, that Verdict has severity "unknown", the
\* error's text as its explanation and "Check logs" as recommended action;
\* otherwise it is the Verdict CallWatsonAI returned.
C1_DispatchNeverFails ==
    /\ dpc \in {"idle", "token", "gen"}
    /\ ~aiRet.panic
    /\ DOMAIN dispRet = {"Severity", "Explanation", "RecommendedAction"}
    /\ (dpc = "idle" /\ dispEvent # NoEvent) =>
          IF aiRet.isErr
          THEN dispRet = [Severity |-> "unknown", Explanation |-> <<aiRet.msg>>,
                          RecommendedAction |-> "Check logs"]
          ELSE dispRet = aiRet.resp

\* a call against an empty CVE list whose model call came back without
\* results has returned the degraded Verdict
C1_Witness ==
    /\ dpc = "idle"
    /\ recentCVEs = <<>>
    /\ aiRet.isErr
    /\ aiRet.msg = "empty response from Watsonx"
    /\ dispRet.Severity = "unknown"
    /\ dispRet.RecommendedAction = "Check logs"

IsOk(e) == e.kind = "ok"

OkLog == SelectSeq(keyLog, IsOk)

PoolKeys == { TrimSpace(apiKeys[k]) : k \in 1..Len(apiKeys) }

\* C2: with a pool of N >= 1 keys, any N+1 consecutive completed Next()
\* calls return the keys in pool order starting at the cursor of the first
\* of them, cover every key of the pool, and the (N+1)-th call returns the
\* key the first one returned.
C2_RoundRobin ==
    LET N == Len(apiKeys)
    IN  \A i \in 1..Len(OkLog) :
            (N >= 1 /\ i + N <= Len(OkLog)) =>
                /\ \A j \in 0..N :
                       OkLog[i + j].key = TrimSpace(apiKeys[((OkLog[i].idx + j) % N) + 1])
                /\ { OkLog[i + j].key : j \in 0..(N - 1) } = PoolKeys
                /\ OkLog[i + N].key = OkLog[i].key

\* a window of 4 calls over a 3-key pool that starts at cursor 1
C2_Witness ==
    /\ Len(apiKeys) = 3
    /\ \E i \in 1..Len(OkLog) : i + 3 <= Len(OkLog) /\ OkLog[i].idx = 1

\* C3: under every interleaving of concurrent Next() calls, once the pool
\* is initialised the cursor satisfies 0 <= cursor < pool size; the pool is
\* never indexed out of range, and when it cannot be initialised the call
\* ends with the explicit error and without indexing the pool.
C3_CursorInRange ==
    /\ Len(apiKeys) > 0 => (0 <= keyIndex /\ keyIndex < Len(apiKeys))
    /\ \A i \in 1..Len(keyLog) : keyLog[i].kind # "panic"
    /\ \A p \in Tasks : kpc[p] \in {"read", "advance", "ret"} => Len(apiKeys) > 0
    /\ \A i \in 1..Len(keyLog) :
           keyLog[i].kind = "err" => (keyLog[i].err = ErrNoKeys /\ Len(apiKeys) = 0)
    /\ envApiKeys = <<>> => \A i \in 1..Len(keyLog) : keyLog[i].kind = "err"

\* a task is about to wrap the cursor of a 3-key pool while another waits
C3_Witness ==
    /\ Len(apiKeys) = 3
    /\ keyIndex = 2
    /\ \E p, q \in Tasks : p # q /\ kpc[p] = "advance" /\ kpc[q] = "idle"
    /\ Len(keyLog) >= 2

\* C4: the pool is filled from the configuration by the first call that
\* finds it empty; a call fails (with the no-credentials error) exactly when
\* the pool is empty and the configuration is absent or empty, and then
\* leaves pool and cursor unchanged; once the pool is initialised neither
\* the pool changes nor is the configuration read again.
C4_LazyInit ==
    [][ /\ apiKeys' # apiKeys =>
             (apiKeys = <<>> /\ envApiKeys # <<>> /\ apiKeys' = Split(envApiKeys))
        /\ (Len(keyLog') > Len(keyLog) /\ keyLog'[Len(keyLog')].kind = "err") =>
             /\ envApiKeys = <<>>
             /\ keyLog'[Len(keyLog')].err = ErrNoKeys
             /\ apiKeys' = apiKeys /\ keyIndex' = keyIndex
        /\ (Len(keyLog') > Len(keyLog) /\ envApiKeys = <<>>) =>
             keyLog'[Len(keyLog')].kind = "err"
        /\ Len(apiKeys) > 0 => envReads' = envReads
      ]_vars

\* a second call completed on an initialised pool after exactly one read
\* of the configuration
C4_Witness ==
    /\ Len(apiKeys) = 2
    /\ Len(OkLog) >= 2
    /\ envReads = 1

\* ------------------------------------------- token cache: properties
\* C5: when the entry cached for the key satisfies now < expiry at the
\* moment getIAMToken checks the cache, the call returns that entry's token,
\* sends no token-exchange request and leaves the cache unchanged.
C5_CacheHit ==
    [][ \A p \in Tasks :
          ( /\ tpc[p] = "check"
            /\ tokenCache[tkey[p]].set
            /\ now < tokenCache[tkey[p]].expiry
            /\ tpc'[p] # "check" ) =>
          ( /\ tpc'[p] = "idle"
            /\ tokRet'.kind = "ok"
            /\ tokRet'.key = tkey[p]
            /\ tokRet'.token = tokenCache[tkey[p]].token
            /\ iamCalls' = iamCalls
            /\ tokenCache' = tokenCache )
      ]_vars

\* a call was served from the cache some time after the only exchange
C5_Witness ==
    /\ tokRet.kind = "ok"
    /\ tokRet.hit
    /\ tokRet.at > 0
    /\ iamCalls = 1

\* C6: no call returns the token of an entry at an instant at or after
\* that entry's expiry (issue instant + lifetime - 60 s), on the cached path
\* and on the freshly exchanged path, whatever the issued lifetime.
C6_NeverPastExpiry ==
    tokRet.kind = "ok" => tokRet.at < tokRet.exp

\* C7: a failed exchange (transport error, non-200 status, undecodable
\* body) makes the call return an error and leaves the whole cache as it
\* was: the cache changes only when a successful answer is stored.
C7_FailureKeepsCache ==
    [][ /\ \A p \in Tasks :
             ( /\ tpc[p] = "wait"
               /\ iamResp.kind \in {"neterr", "status", "badbody"}
               /\ tpc'[p] = "idle" ) =>
             ( /\ tokRet'.kind = "err"
               /\ tokRet'.key = tkey[p]
               /\ tokenCache' = tokenCache )
        /\ tokenCache' # tokenCache =>
             \E p \in Tasks : tpc[p] = "wait" /\ iamResp.kind = "ok"
      ]_vars

\* the exchange for a key with an expired entry failed while another key
\* holds a valid entry; both entries are still there
C7_Witness ==
    /\ tokRet.kind = "err"
    /\ tokenCache[tokRet.key].set
    /\ \E k \in TokenKeys :
           k # tokRet.key /\ tokenCache[k].set /\ now < tokenCache[k].expiry

\* ------------------------------------------------- CVE store: properties
\* C8 (as stated): any two feed requests are at least one freshness window
\* apart, whatever the outcome of the earlier call.
C8_AtMostOnePerWindow ==
    \A i, j \in 1..Len(fetchLog) :
        i < j => fetchLog[j].at - fetchLog[i].at >= freshnessWindow

\* C8 (amended): the feed is contacted only when the cache file is missing,
\* undecodable or at least one freshness window old; so after a call whose
\* fetch succeeded and whose file was written the next request is at least a
\* window later, and two requests closer than that are separated by a failed
\* fetch or a failed file write.
C8_FetchOnlyWhenStale ==
    /\ \A i \in 1..Len(fetchLog) :
           fetchLog[i].fileOk => fetchLog[i].at - fetchLog[i].fileTs >= freshnessWindow
    /\ \A i \in 1..(Len(fetchLog) - 1) :
           fetchLog[i].out = "saved" =>
               fetchLog[i + 1].at - fetchLog[i].at >= freshnessWindow
    /\ \A i, j \in 1..Len(fetchLog) :
           (i < j /\ fetchLog[j].at - fetchLog[i].at < freshnessWindow) =>
               \E k \in i..(j - 1) : fetchLog[k].out \in {"err", "unsaved"}

\* after a fetch that was saved, a later call inside the window returned
\* from the file without a new request
C8_Witness ==
    /\ Len(fetchLog) >= 1
    /\ fetchLog[Len(fetchLog)].out = "saved"
    /\ efRet.kind = "ok"
    /\ efRet.path = "file"
    /\ efRet.at > fetchLog[Len(fetchLog)].at
    /\ efRet.at - fetchLog[Len(fetchLog)].at < freshnessWindow

\* C9: when the file is stale or missing and the feed call errors, the call
\* returns the error and leaves the in-memory list (what GetRecentCVEs
\* serves) and the cache file exactly as they were before the call.
C9_FetchErrorKeepsSnapshot ==
    [][ /\ ( /\ epc = "fetched"
             /\ (nvdResp.kind = "neterr" \/ ~nvdResp.decodes)
             /\ epc' # "fetched" ) =>
           ( /\ epc' = "idle"
             /\ efRet'.kind = "err"
             /\ recentCVEs' = recentCVEs
             /\ GetRecentCVEs(recentCVEs') = GetRecentCVEs(recentCVEs)
             /\ cacheFile' = cacheFile )
        /\ ( \/ (epc = "idle" /\ epc' = "fetch")
             \/ (epc = "fetch" /\ epc' = "fetched") ) =>
           ( recentCVEs' = recentCVEs /\ cacheFile' = cacheFile )
      ]_vars

\* a refresh of a stale file failed and the earlier records are still served
C9_Witness ==
    /\ efRet.kind = "err"
    /\ epc = "idle"
    /\ recentCVEs # <<>>
    /\ cacheFile.ok
    /\ now - cacheFile.ts >= freshnessWindow

AllowedVendors == { networkVendors[i] : i \in 1..Len(networkVendors) }

InPolicy(c) == c.score >= scoreThreshold /\ ToLower(c.vendor) \in AllowedVendors

\* C10: after a successful fetch-path refresh the in-memory list is exactly
\* the sub-list, in feed order, of the fetched records with score >= 7.0 and
\* lower-cased vendor in the allow-list when that sub-list is non-empty, and
\* exactly the whole fetched list otherwise.
C10_FilterOrAll ==
    (efRet.kind = "ok" /\ efRet.path = "fetch") =>
        recentCVEs = IF SelectSeq(efRet.fetched, InPolicy) # <<>>
                     THEN SelectSeq(efRet.fetched, InPolicy)
                     ELSE efRet.fetched

\* four records were fetched and the two in policy were adopted
C10_Witness ==
    /\ efRet.kind = "ok"
    /\ efRet.path = "fetch"
    /\ Len(efRet.fetched) = 4
    /\ recentCVEs = <<RecCisco, RecCiscoCaps>>

\* C11: the timestamp in the cache file never decreases.  A step that
\* replaces one decodable file by another does not lower the timestamp; the
\* file read at the start of any earlier fetch-path call carries a
\* timestamp no later than the present one; and a call that returns from
\* the fresh file, or that returns the fetch error, leaves the file alone.
C11_TimestampMonotone ==
    /\ [][ /\ (cacheFile.ok /\ cacheFile'.ok) => cacheFile'.ts >= cacheFile.ts
           /\ (epc = "idle" /\ epc' = "idle") => cacheFile' = cacheFile
           /\ (epc = "fetched" /\ epc' = "idle") => cacheFile' = cacheFile
           /\ cacheFile' # cacheFile => epc = "save"
         ]_vars
    /\ [](\A i \in 1..Len(fetchLog) :
              (cacheFile.ok /\ fetchLog[i].fileOk) => cacheFile.ts >= fetchLog[i].fileTs)

\* a file the program wrote itself went stale and was replaced by a later one
C11_Witness ==
    /\ cacheFile.ok
    /\ \E i \in 1..Len(fetchLog) :
           /\ fetchLog[i].fileOk
           /\ fetchLog[i].fileTs >= 0
           /\ fetchLog[i].out = "saved"
           /\ cacheFile.ts > fetchLog[i].fileTs

\* C12: cveMutex is held for writing only around the assignment, never
\* while the feed request is in flight or the file is being written, so in
\* those states every reader can take its next step of GetRecentCVEs; and
\* under every interleaving the copy a reader returns is the whole list
\* that is installed at that moment: the one before the refresh or the one
\* after it, never a slice sized for one list and filled from another.
C12_SnapshotNeverBlocksNorTears ==
    /\ [](cveMutex.writer => epc \in {"fileAdopt", "adopt"})
    /\ [](cveMutex.pending => epc \in {"fileLock", "lock"})
    /\ [](epc \in {"fetch", "fetched", "save"} => \A p \in Readers : ENABLED SnapStep(p))
    /\ [](\A p \in Readers : spc[p] \in {"made", "copied"} => sloc[p].n = Len(recentCVEs))
    /\ [][\A p \in Readers :
             (spc[p] = "copied" /\ spc'[p] = "idle") => sloc[p].out = recentCVEs]_vars

\* while the feed request is in flight two readers hold the read lock, one
\* of them with a finished copy of the earlier, non-empty list
C12_Witness ==
    /\ epc = "fetch"
    /\ cveMutex.readers = 2
    /\ \E p \in Readers :
           /\ spc[p] = "copied"
           /\ sloc[p].out # <<>>
           /\ sloc[p].out = recentCVEs

\* ------------------------------------------- matcher: properties
\* a name is mentioned in a text when it is not empty and occurs in it,
\* letter case aside
Mentioned(text, name) == name # <<>> /\ Contains(ToLower(text), ToLower(name))

NamedIn(text, c) == Mentioned(text, c.vendor) \/ Mentioned(text, c.product)

Elems(items) == { items[i] : i \in 1..Len(items) }

PublishedAt(c) == parsePublished(c.published)

\* out holds the min(maxRecords, n) most recently published of items, newest first
MostRecentOf(out, items) ==
    /\ Len(out) = IF Len(items) < maxRecords THEN Len(items) ELSE maxRecords
    /\ Elems(out) \subseteq Elems(items)
    /\ \A i, j \in 1..Len(out) : i < j => out[i] # out[j]
    /\ \A i, j \in 1..Len(out) : i < j => PublishedAt(out[i]) >= PublishedAt(out[j])
    /\ \A c \in Elems(items) \ Elems(out) :
           \A d \in Elems(out) : PublishedAt(d) >= PublishedAt(c)

\* C13: for every cache, records with an empty vendor or product included,
\* and every event text, FindRelevantCVEs returns at most 5 records; and
\* when no cached record's vendor or product name is mentioned in the text
\* it returns the min(5, n) most recently published of the n cached
\* records, newest first.
C13_CapAndRecencyFallback ==
    fnIn.op = "FindRelevantCVEs" =>
        /\ Len(fnOut) <= maxRecords
        /\ (\A c \in Elems(fnIn.items) : ~NamedIn(fnIn.text, c)) =>
               MostRecentOf(fnOut, fnIn.items)

\* the records of items that the text names, in the order of items
RECURSIVE NamedMatches(_, _)
NamedMatches(text, items) ==
    IF items = <<>> THEN <<>>
    ELSE (IF NamedIn(text, Head(items)) THEN <<Head(items)>> ELSE <<>>)
         \o NamedMatches(text, Tail(items))

FirstUpTo(n, items) == IF Len(items) > n THEN SubSeq(items, 1, n) ELSE items

\* C14: when the vendor or product name of at least one cached record
\* occurs, letter case aside, in the event text, FindRelevantCVEs returns
\* exactly the first min(5, m) of the m records so named, in cache order:
\* every returned record is named in the text, and a named record is
\* returned whenever fewer than 5 named records precede it.
C14_FirstFiveMatches ==
    (fnIn.op = "FindRelevantCVEs" /\ NamedMatches(fnIn.text, fnIn.items) # <<>>) =>
        fnOut = FirstUpTo(maxRecords, NamedMatches(fnIn.text, fnIn.items))

\* C15: FindRelevantCVEs returns no record if and only if the cache is
\* empty at the call; on a non-empty cache it returns at least one record
\* for every event text.
C15_EmptyOnlyIfCacheEmpty ==
    fnIn.op = "FindRelevantCVEs" => (fnOut = <<>> <=> fnIn.items = <<>>)

\* on a cache of more than 5 records none of which the text names, the
\* matcher returned 5 of them
C15_Witness ==
    /\ fnIn.op = "FindRelevantCVEs"
    /\ Len(fnIn.items) > maxRecords
    /\ NamedMatches(fnIn.text, fnIn.items) = <<>>
    /\ \A c \in Elems(fnIn.items) : c.vendor # <<>> /\ c.product # <<>>
    /\ Len(fnOut) = maxRecords

\* ------------------------------------------- formatter: properties
Ids(items) == { items[i].id : i \in 1..Len(items) }

\* block is the opening marker, k record lines of records of items, and the
\* closing marker
IsBlockOf(block, k, items) ==
    /\ Len(block) = k + 2
    /\ block[1] = "<Rag>"
    /\ block[Len(block)] = "</Rag>"
    /\ \A i \in 2..(Len(block) - 1) : block[i].id \in Ids(items)
    /\ \A i, j \in 2..(Len(block) - 1) : i < j => block[i].id # block[j].id

\* C16: BuildCVERagBlockFromList on n records returns the empty text when
\* n = 0 and otherwise the two markers around exactly min(n, 5) record
\* lines; so the block in the prompt built for any event holds at most 5
\* records.
C16_RenderAtMostFive ==
    /\ fnIn.op = "BuildCVERagBlockFromList" =>
           IF Len(fnIn.items) = 0 THEN fnOut = <<>>
           ELSE IsBlockOf(fnOut, IF Len(fnIn.items) < 5 THEN Len(fnIn.items) ELSE 5, fnIn.items)
    /\ fnIn.op = "BuildPrompt" =>
           \/ fnOut = <<>>
           \/ \E k \in 1..5 : IsBlockOf(fnOut, k, fnIn.items)

\* a list of 7 records was rendered as 5 lines between the markers
C16_Witness ==
    /\ fnIn.op = "BuildCVERagBlockFromList"
    /\ Len(fnIn.items) = 7
    /\ Len(fnOut) = 7
    /\ fnOut[1] = "<Rag>"

\* ------------------------------------------- extractor and parser: properties
\* opening braces minus closing braces in text[a..b]
Depth(text, a, b) ==
    Cardinality({ i \in a..b : text[i] = "{" }) - Cardinality({ i \in a..b : text[i] = "}" })

\* text[a..b] is one balanced {...}: it opens at a and first closes at b
Closes(text, a, b) ==
    /\ a < b
    /\ text[a] = "{"
    /\ text[b] = "}"
    /\ Depth(text, a, b) = 0
    /\ \A c \in a..(b - 1) : Depth(text, a, c) > 0

Groups(text) == { ab \in (1..Len(text)) \X (1..Len(text)) : Closes(text, ab[1], ab[2]) }

\* the braces of the whole text pair up
BracesBalanced(text) ==
    /\ Depth(text, 1, Len(text)) = 0
    /\ \A c \in 1..Len(text) : Depth(text, 1, c) >= 0

HasOpen(text) == \E i \in 1..Len(text) : text[i] = "{"

\* C17 (as stated): a text containing exactly one balanced {...} yields
\* exactly that substring, and a text whose braces are unbalanced, or that
\* has no "{", yields the empty result.
C17_OneObjectOrNothing ==
    fnIn.op = "extractFirstJSON" =>
        /\ (BracesBalanced(fnIn.text) /\ Cardinality(Groups(fnIn.text)) = 1) =>
               \A ab \in Groups(fnIn.text) : fnOut = SubSeq(fnIn.text, ab[1], ab[2])
        /\ (~BracesBalanced(fnIn.text) \/ ~HasOpen(fnIn.text)) => fnOut = <<>>

\* C17 (amended): the result is the substring from the first "{" to the
\* first "}" at which the depth counted from that "{" is back at zero, and
\* it is empty when there is no "{" or that depth never comes back to zero;
\* so a text whose braces pair up and that holds exactly one {...} yields
\* that substring, while unbalanced braces elsewhere in the text do not
\* empty the result.
C17_FirstClosedFromFirstOpen ==
    fnIn.op = "extractFirstJSON" =>
        LET opens == { i \in 1..Len(fnIn.text) : fnIn.text[i] = "{" }
        IN  /\ opens = {} => fnOut = <<>>
            /\ opens # {} =>
                  LET start == CHOOSE i \in opens : \A j \in opens : i <= j
                      ends == { b \in 1..Len(fnIn.text) : Closes(fnIn.text, start, b) }
                  IN  /\ ends = {} => fnOut = <<>>
                      /\ \A b \in ends : fnOut = SubSeq(fnIn.text, start, b)
            /\ (BracesBalanced(fnIn.text) /\ Cardinality(Groups(fnIn.text)) = 1) =>
                  \A ab \in Groups(fnIn.text) : fnOut = SubSeq(fnIn.text, ab[1], ab[2])

\* a text with a stray closing brace after its object yielded the object
C17_Witness ==
    /\ fnIn.op = "extractFirstJSON"
    /\ fnIn.text = <<"{", "x", "}", "}">>
    /\ fnOut = <<"{", "x", "}">>

Degraded(explanation) ==
    [Severity |-> "unknown", Explanation |-> explanation,
     RecommendedAction |-> "Manual review required"]

\* C18: when the generated text holds no extractable object the call
\* succeeds with severity "unknown", action "Manual review required" and
\* the raw generated text as explanation; when the extracted object does
\* not decode into the Verdict shape, the same with the extracted text as
\* explanation; and when the object is well formed the Verdict carries
\* exactly its severity, explanation and recommended_action.
C18_DegradedOrParsed ==
    fnIn.op = "ParseGenerated" =>
        LET obj == extractFirstJSON(fnIn.text)
        IN  IF obj = <<>> THEN fnOut = Degraded(fnIn.text)
            ELSE IF UnmarshalFails(obj) THEN fnOut = Degraded(obj)
            ELSE fnOut = Unmarshal(obj)

\* C19: every Verdict DispatchEvent returns has a severity in the closed
\* set critical, high, medium, low, unknown, whatever the model generated.
C19_SeverityInVocabulary ==
    (dpc = "idle" /\ dispEvent # NoEvent) =>
        dispRet.Severity \in {"critical", "high", "medium", "low", "unknown"}

\* ------------------------------------------- refresh loop: properties
\* C20: a failed EnsureRecentNetworkCVEs, at startup or on a tick, stops
\* neither the loop nor the process: while ticks remain the next one can
\* fire, and once the feed has recovered for good a later tick ends with
\* the fetched list installed.
C20_LoopSurvivesFailure ==
    /\ []((epc = "idle" /\ efRet.kind = "err" /\ now + tickerPeriod <= MaxLiveTime)
             => ENABLED LiveTick)
    /\ []((efRet.kind = "err" /\ feedUp /\ now + tickerPeriod <= MaxLiveTime)
             => <>(efRet.kind = "ok" /\ efRet.path = "fetch"))

\* a refresh failed, the feed recovered, and a later tick installed the
\* fetched list
C20_Witness ==
    /\ feedUp
    /\ efRet.kind = "ok"
    /\ efRet.path = "fetch"
    /\ recentCVEs # <<>>
    /\ \E i \in 1..Len(fetchLog) : fetchLog[i].out = "err" /\ fetchLog[i].at < efRet.at

\* ------------------------------------------- HTTP service: properties
\* C21: when the client could not be constructed, main goes on to serve (it
\* exits only if the listen address cannot be bound), no request ever enters
\* Analyze, no response is a 200 or a recovered panic, and every request whose
\* body binds is answered 503.
C21_DegradedServes503 ==
    (mpc \notin {"off", "boot"} /\ watsonClient.nil) =>
        /\ (mpc = "exited" => ~svcEnv.portFree)
        /\ hpc = "idle"
        /\ ~hloc.analyzed
        /\ hresp.status \in {0, 400, 503}
        /\ (hresp # NoResponse /\ ~BindFails(hreq) => hresp = NotConfigured(hreq))

C21_Witness ==
    /\ mpc = "serving"
    /\ watsonClient.nil
    /\ svcEnv.keys = <<>>
    /\ ~BindFails(hreq)
    /\ hresp.status = 503

\* ------------------------------------------- formatter order: properties
\* the record lines of block are the first records of items, in that order
LinesFollow(block, items) ==
    /\ Len(block) - 2 <= Len(items)
    /\ \A i \in 2..(Len(block) - 1) : block[i].id = items[i - 1].id

\* C22: the record lines BuildCVERagBlockFromList writes are the first (at
\* most 5) records of its argument in the argument's order, and the block in
\* the prompt lists the records in the order FindRelevantCVEs returned them.
C22_CallerOrderKept ==
    /\ (fnIn.op = "BuildCVERagBlockFromList" /\ fnOut # <<>>) =>
           LinesFollow(fnOut, fnIn.items)
    /\ (fnIn.op = "BuildPrompt" /\ fnOut # <<>>) =>
           LinesFollow(fnOut, FindRelevantCVEs(fnIn.items, fnIn.text))

\* ------------------------------------------- fallback order: properties
\* position of the record rec in items
PosIn(items, rec) == CHOOSE k \in 1..Len(items) : items[k].id = rec.id

\* C23: when no record matches the text, the records FindRelevantCVEs returns
\* that have equal publication instants stand in their cache order, on a
\* cache of any length.
C23_TiesKeepCacheOrder ==
    (fnIn.op = "FindRelevantCVEs"
       /\ MatchingCVEs(ToLower(fnIn.text), fnIn.items) = <<>>) =>
        \A i, j \in 1..Len(fnOut) :
            (i < j /\ parsePublished(fnOut[i].published) = parsePublished(fnOut[j].published))
                => PosIn(fnIn.items, fnOut[i]) < PosIn(fnIn.items, fnOut[j])

\* ------------------------------------------- unparsable timestamps: properties
\* the publication text of c is absent or in neither layout
Unparsable(c) == c.published.form = "bad"

\* the record of items with the identifier id
RecOf(items, id) == CHOOSE c \in Elems(items) : c.id = id

\* the records a block lists, in the block's order
BlockRecords(block, items) ==
    [i \in 1..(Len(block) - 2) |-> RecOf(items, block[i + 1].id)]

\* the recency ordering made by the last call: input and output records
\* (none when the last call did not sort)
RecencyOrdered ==
    IF fnIn.op = "FindRelevantCVEs" /\ fnIn.items # <<>>
         /\ MatchingCVEs(ToLower(fnIn.text), fnIn.items) = <<>>
    THEN { [items |-> fnIn.items, out |-> fnOut] }
    ELSE IF fnIn.op = "BuildCVERagBlockFromList" /\ fnIn.items # <<>>
    THEN { [items |-> fnIn.items, out |-> BlockRecords(fnOut, fnIn.items)] }
    ELSE {}

\* the call returned min(n, 5) records of its input
ReturnedTop(o) ==
    /\ Len(o.out) = IF Len(o.items) < maxRecords THEN Len(o.items) ELSE maxRecords
    /\ Elems(o.out) \subseteq Elems(o.items)

\* C24 as stated: in the fallback of FindRelevantCVEs and in
\* BuildCVERagBlockFromList the call returns its records, no record with an
\* unparsable timestamp stands before a record with a parsable one, and none
\* is kept while a record with a parsable timestamp is cut.
C24_UnparsableAfterEveryParsable ==
    \A o \in RecencyOrdered :
        /\ ReturnedTop(o)
        /\ \A i, j \in 1..Len(o.out) :
               i < j => ~(Unparsable(o.out[i]) /\ ~Unparsable(o.out[j]))
        /\ \A c \in Elems(o.items) \ Elems(o.out) :
               \A d \in Elems(o.out) : ~(Unparsable(d) /\ ~Unparsable(c))

\* c has a timestamp that parses to an instant after 0001-01-01T00:00:00Z
ParsesAfterZero(c) == ~Unparsable(c) /\ c.published.t > zeroInstant

\* c has a timestamp that parses to an instant before 0001-01-01T00:00:00Z
ParsesBeforeZero(c) == ~Unparsable(c) /\ c.published.t < zeroInstant

\* C24 amended: a record with an unparsable timestamp is ordered as the
\* instant 0001-01-01T00:00:00Z: it never stands before, nor is kept instead
\* of, a record whose timestamp parses to a later instant, and never stands
\* after, nor is cut instead of, one whose timestamp parses to an earlier
\* instant; the call always returns its records.
C24_UnparsableSortsAsZeroInstant ==
    \A o \in RecencyOrdered :
        /\ ReturnedTop(o)
        /\ \A i, j \in 1..Len(o.out) :
               i < j => /\ ~(Unparsable(o.out[i]) /\ ParsesAfterZero(o.out[j]))
                        /\ ~(ParsesBeforeZero(o.out[i]) /\ Unparsable(o.out[j]))
        /\ \A c \in Elems(o.items) \ Elems(o.out) :
               \A d \in Elems(o.out) :
                   /\ ~(Unparsable(d) /\ ParsesAfterZero(c))
                   /\ ~(ParsesBeforeZero(d) /\ Unparsable(c))

\* a fallback result that lists a record with an unparsable timestamp after a
\* record with a parsable one and before a record of the year 0000
C24_Witness ==
    /\ fnIn.op = "FindRelevantCVEs"
    /\ \E o \in RecencyOrdered :
          \E i, j, k \in 1..Len(o.out) :
              /\ i < j /\ j < k
              /\ ParsesAfterZero(o.out[i])
              /\ Unparsable(o.out[j])
              /\ ParsesBeforeZero(o.out[k])

\* ------------------------------------------- AI client requests: properties
\* how many requests of log went to the service `to`
CountTo(log, to) == Cardinality({ i \in 1..Len(log) : log[i].to = to })

IamFailureTexts ==
    { IamErrText(r) : r \in { x \in PipelineIamResponses : ExchangeFailed(x) } }

GenFailureTexts ==
    { GenErrText(g) : g \in { x \in GenResponses : x.kind # "text" } }

\* C25: one CallWatsonAI call sends at most one token-exchange request and at
\* most one generation request, all for the one key it was dispensed; a call
\* that returned a token-exchange failure sent that one request and nothing
\* after it, and a call that returned a generation failure sent nothing after
\* the generation request.
C25_SingleAttemptNoRetry ==
    /\ CountTo(reqLog, "iam") <= 1
    /\ CountTo(reqLog, "gen") <= 1
    /\ \A i \in 1..Len(reqLog) : reqLog[i].key = reqLog[1].key
    /\ (dpc = "token") => reqLog = << IamRequest(dloc.key) >>
    /\ (dpc = "idle" /\ aiRet.isErr /\ aiRet.msg \in IamFailureTexts) =>
           (Len(reqLog) = 1 /\ reqLog[1].to = "iam")
    /\ (dpc = "idle" /\ aiRet.isErr /\ aiRet.msg \in GenFailureTexts) =>
           (reqLog # <<>> /\ reqLog[Len(reqLog)].to = "gen")

\* with two keys in the pool, a call whose token exchange failed has returned
\* that failure after its one request
C25_Witness ==
    /\ dpc = "idle"
    /\ aiRet.isErr
    /\ aiRet.msg \in IamFailureTexts
    /\ Len(apiKeys) = 2
    /\ reqLog = << IamRequest(reqLog[1].key) >>

\* the key the last getNextAPIKey call dispensed: the one before the cursor
DispensedKey == KeyAt(apiKeys, (keyIndex + Len(apiKeys) - 1) % Len(apiKeys))

\* C26: a generation request is sent only after the key and the token were
\* obtained: it is for the key dispensed in this call, carries the token the
\* cache holds for that key, and follows the call's token request if there
\* was one; a call that failed for want of a key sent nothing and returned
\* that error, and a call that returned a key or token failure sent no
\* generation request.
C26_KeyThenTokenThenGenerate ==
    /\ \A i \in 1..Len(reqLog) :
           /\ apiKeys # <<>>
           /\ reqLog[i].key = DispensedKey
           /\ reqLog[i].to = "gen" =>
                  /\ i = Len(reqLog)
                  /\ i = 2 => reqLog[1] = IamRequest(DispensedKey)
                  /\ tokenCache[DispensedKey].set
                  /\ reqLog[i].token # ""
                  /\ reqLog[i].token = tokenCache[DispensedKey].token
    /\ (dpc = "idle" /\ dispEvent # NoEvent /\ apiKeys = <<>>) =>
           (aiRet.isErr /\ aiRet.msg = ErrNoKeys /\ reqLog = <<>>)
    /\ (dpc = "idle" /\ aiRet.isErr /\ aiRet.msg \in {ErrNoKeys} \cup IamFailureTexts) =>
           CountTo(reqLog, "gen") = 0

\* the second key of the pool was dispensed, its token obtained, and the
\* generation request sent with it
C26_Witness ==
    /\ Len(reqLog) = 2
    /\ reqLog[1] = IamRequest(<<"b">>)
    /\ reqLog[2].to = "gen"
    /\ reqLog[2].token \in {"t1", "t2"}

\* ------------------------------------------- generation outcome: properties
\* the model endpoint's answer holds no generated text: no result at all, or a
\* first result whose text is empty
NoGeneratedText(g) == g.kind = "noresults" \/ (g.kind = "text" /\ g.text = <<>>)

\* C27: a CallWatsonAI call whose generation request met a transport error or
\* a non-200 status returned that error, a call whose answer held no
\* generated text returned the empty-response error, and in neither case a
\* Verdict.
C27_NoTextIsAnError ==
    (dpc = "idle" /\ aiRet.gen # NoGen) =>
        /\ aiRet.gen.kind \in {"neterr", "status"} =>
               (aiRet.isErr /\ aiRet.msg = GenErrText(aiRet.gen) /\ aiRet.resp = NoVerdict)
        /\ NoGeneratedText(aiRet.gen) =>
               (aiRet.isErr /\ aiRet.msg = "empty response from Watsonx"
                  /\ aiRet.resp = NoVerdict)

\* ------------------------------------------- degraded outcomes: properties
\* the Verdict says: unknown severity, look at the logs
SaysCheckLogs(v) == v.Severity = "unknown" /\ v.RecommendedAction = "Check logs"

\* the Verdict says: unknown severity, review by hand
SaysManualReview(v) ==
    v.Severity = "unknown" /\ v.RecommendedAction = "Manual review required"

\* the model call of the last CallWatsonAI succeeded and its text held no
\* object that decodes
OutputUnparsable ==
    /\ ~aiRet.isErr
    /\ aiRet.gen.kind = "text"
    /\ \/ extractFirstJSON(aiRet.gen.text) = <<>>
       \/ UnmarshalFails(extractFirstJSON(aiRet.gen.text))

\* the model call succeeded and the Verdict is the object the model wrote
OutputDecoded ==
    /\ ~aiRet.isErr
    /\ aiRet.gen.kind = "text"
    /\ extractFirstJSON(aiRet.gen.text) # <<>>
    /\ ~UnmarshalFails(extractFirstJSON(aiRet.gen.text))
    /\ dispRet = Unmarshal(extractFirstJSON(aiRet.gen.text))

\* C28 as stated: DispatchEvent returns unknown/"Check logs" only when
\* CallWatsonAI returned an error, and unknown/"Manual review required" only
\* when the model call succeeded and its output could not be parsed.
C28_OutcomesAlwaysTellable ==
    (dpc = "idle" /\ dispEvent # NoEvent) =>
        /\ SaysCheckLogs(dispRet) => aiRet.isErr
        /\ SaysManualReview(dispRet) => OutputUnparsable

\* C28 amended: an error of CallWatsonAI always gives unknown/"Check logs"
\* and an unparsable output always unknown/"Manual review required", never
\* the other way round; a Verdict with either pair that has neither cause is
\* the decoded object the model itself generated.
C28_TellableUnlessModelSaysSo ==
    (dpc = "idle" /\ dispEvent # NoEvent) =>
        /\ aiRet.isErr => (dispRet = DegradedVerdict(aiRet.msg) /\ SaysCheckLogs(dispRet))
        /\ OutputUnparsable => SaysManualReview(dispRet)
        /\ SaysCheckLogs(dispRet) => (aiRet.isErr \/ OutputDecoded)
        /\ SaysManualReview(dispRet) => (OutputUnparsable \/ OutputDecoded)

\* the model call succeeded after a token exchange and its text, which holds
\* no object, came back as the explanation of a "Manual review required"
\* Verdict
C28_Witness ==
    /\ dpc = "idle"
    /\ Len(reqLog) = 2
    /\ OutputUnparsable
    /\ extractFirstJSON(aiRet.gen.text) = <<>>
    /\ dispRet.Explanation # <<>>
    /\ SaysManualReview(dispRet)

\* ------------------------------------------- unusable cache file: properties
\* the document a successful write of the fetched records leaves on disk
NewSnapshotFile ==
    [ok |-> TRUE, ts |-> now, cves |-> FilteredOrAll(FetchedItems(nvdResp))]

BadStatusInHand == nvdResp.kind = "http" /\ nvdResp.status # 200

\* C30: when the feed answers with a status other than 200 the call returns
\* an error, and no step taken on that answer changes the in-memory list or
\* the cache file.
C30_BadStatusIsAFailedFetch ==
    [][ /\ (epc = "fetched" /\ BadStatusInHand /\ epc' # "fetched") =>
               (epc' = "idle" /\ efRet'.kind = "err")
        /\ BadStatusInHand => (recentCVEs' = recentCVEs /\ cacheFile' = cacheFile)
      ]_vars


\* ------------------------------------------- concurrent token callers
\* tasks whose token-exchange request is in flight
InFlight == { p \in Tasks : tpc[p] = "wait" }

\* task p, at its cache check, waited for tokenMutex while another task
\* stored an answer for the same key whose lifetime exceeds the margin
WaitedForWinner(p) ==
    /\ tpc[p] = "check"
    /\ tseen[p].won

\* C31 (as stated): at most one token exchange is in flight at any time, and
\* a caller that called getIAMToken(k) while another caller's exchange for k
\* was under way, that exchange having been issued a lifetime above 60 s,
\* performs no exchange of its own and returns the token the other cached.
C31_OneExchangePerRace ==
    [][ /\ Cardinality(InFlight) <= 1
        /\ \A p \in Tasks :
             (WaitedForWinner(p) /\ tpc'[p] # "check") =>
             ( /\ tpc'[p] = "idle"
               /\ iamCalls' = iamCalls
               /\ tokRet'.kind = "ok"
               /\ tokRet'.token = tseen[p].token )
      ]_vars

\* C31 (amended): at most one token exchange is in flight at any time and it
\* belongs to the holder of tokenMutex; a caller that waited while another
\* caller's exchange for the same key succeeded with a lifetime above 60 s
\* returns the cached token without an exchange when it checks the cache
\* before the stored expiry (store instant + lifetime - 60 s), and sends an
\* exchange of its own when it checks at or after that expiry.
C31_OneExchangeWhileEntryValid ==
    [][ /\ Cardinality(InFlight) <= 1
        /\ \A p \in InFlight : tokenMutex = p
        /\ \A p \in Tasks :
             (WaitedForWinner(p) /\ tpc'[p] # "check") =>
             IF now < tokenCache[tkey[p]].expiry
             THEN /\ tpc'[p] = "idle"
                  /\ iamCalls' = iamCalls
                  /\ tokenCache' = tokenCache
                  /\ tokRet'.kind = "ok"
                  /\ tokRet'.hit
                  /\ tokRet'.token = tokenCache[tkey[p]].token
                  /\ tokRet'.token = tseen[p].token
             ELSE /\ tpc'[p] = "wait"
                  /\ iamCalls' = iamCalls + 1
      ]_vars

\* two tasks called for the same key; one exchange was made, and the task
\* that waited for it has returned the token it stored, from the cache
C31_Witness ==
    /\ iamCalls = 1
    /\ tokRet.kind = "ok"
    /\ tokRet.hit
    /\ \E p \in Tasks :
         /\ tpc[p] = "idle"
         /\ tseen[p].won
         /\ tokRet.token = tseen[p].token
         /\ tokRet.key \in TokenKeys
         /\ \A q \in Tasks \ {p} : ~tseen[q].won


\* ------------------------------------------- rotation under interleaving
\* tasks inside getNextAPIKey, between Lock and the deferred Unlock
InsideKeys == { p \in Tasks : kpc[p] # "idle" }

\* how many of the completed calls returned the pool position pos
TimesReturned(pos) ==
    Cardinality({ i \in 1..Len(OkLog) : OkLog[i].idx = pos })

\* C32: under any interleaving of concurrent getNextAPIKey calls on a pool
\* of N keys, at most one call is inside the locked section, so calls
\* complete in lock-acquisition order; the i-th completed call returns the
\* key at pool position (i-1) mod N, and after K completed calls every pool
\* position has been returned floor(K/N) or ceil(K/N) times.
C32_FairRotationUnderInterleaving ==
    LET N == Len(apiKeys)
        K == Len(OkLog)
    IN  /\ Cardinality(InsideKeys) <= 1
        /\ \A p \in InsideKeys : keyMutex = p
        /\ N >= 1 =>
             /\ \A i \in 1..K :
                    /\ OkLog[i].idx = (i - 1) % N
                    /\ OkLog[i].key = KeyAt(apiKeys, (i - 1) % N)
             /\ keyIndex = (K + Cardinality({ p \in Tasks : kpc[p] = "ret" })) % N
             /\ \A pos \in 0..(N - 1) :
                    \/ TimesReturned(pos) = K \div N
                    \/ TimesReturned(pos) = (K + N - 1) \div N

\* four calls have completed over a 3-key pool (counts 2, 1, 1) and a fifth
\* caller holds the lock, about to advance the cursor
C32_Witness ==
    /\ Len(apiKeys) = 3
    /\ Len(OkLog) = 4
    /\ TimesReturned(0) = 2
    /\ TimesReturned(2) = 1
    /\ \E p \in Tasks : kpc[p] = "advance" /\ keyMutex = p


\* ------------------------------------------- rotation cursor per AI call
\* no credentials: the pool is empty and the configuration gives none
NoCredentials == apiKeys = <<>> /\ envApiKeys = <<>>

\* C33: every CallWatsonAI call made while credentials are configured
\* advances the rotation cursor by exactly one position (modulo the pool
\* size) at its start, and no later step of the call (environment check,
\* token exchange, model call, parsing of the output) moves it again or
\* moves it back, whether that step succeeds or fails; a call that fails for
\* lack of credentials leaves pool and cursor unchanged.
C33_CursorAdvancesOncePerCall ==
    [][ /\ dpc # "idle" => (keyIndex' = keyIndex /\ apiKeys' = apiKeys)
        /\ (dpc = "idle" /\ now' = now) =>
             IF NoCredentials
             THEN /\ keyIndex' = keyIndex
                  /\ apiKeys' = apiKeys
                  /\ dpc' = "idle"
                  /\ aiRet'.isErr
                  /\ aiRet'.msg = ErrNoKeys
             ELSE /\ Len(apiKeys') >= 1
                  /\ keyIndex' = (keyIndex + 1) % Len(apiKeys')
                  /\ (aiRet'.isErr /\ dpc' = "idle") => aiRet'.msg = ErrEnvMissing
      ]_vars

\* the first call took the key at position 0 and failed at the token
\* exchange: the cursor stands at position 1 of the two-key pool
C33_Witness ==
    /\ dpc = "idle"
    /\ Len(apiKeys) = 2
    /\ keyIndex = 1
    /\ aiRet.isErr
    /\ aiRet.msg \in IamFailureTexts
    /\ Len(reqLog) = 1
    /\ reqLog[1] = IamRequest(KeyAt(apiKeys, 0))


\* ------------------------------------------- memory and file after a refresh
\* the step with which EnsureRecentNetworkCVEs returns nil
ReturnsSuccess == epc # "idle" /\ epc' = "idle" /\ efRet'.kind = "ok"

\* C34: when EnsureRecentNetworkCVEs returns success, on the fresh-file path
\* or on the fetch path, the cache file loads, its record list equals the
\* in-memory record list, and its timestamp is less than one freshness
\* window old.
C34_MemoryEqualsFileAfterSuccess ==
    [][ ReturnsSuccess =>
          /\ ~LoadFails(cacheFile')
          /\ recentCVEs' = cacheFile'.cves
          /\ now' - cacheFile'.ts < freshnessWindow
      ]_vars


\* ------------------------------------------- the shared list on the request path
\* C35: no step of a request (the accessor's copy, FindRelevantCVEs with its
\* fallback sort and its cut to five, BuildCVERagBlockFromList with its sort
\* and cut inside CallWatsonAI under DispatchEvent) changes the content or
\* the order of the in-memory list recentCVEs: the slices they sort and cut
\* point into arrays of the request's own, what they return is what the
\* functions give for the list as it was when the accessor copied it, and
\* recentCVEs changes only in the step with which EnsureRecentNetworkCVEs
\* adopts a list and returns success.
C35_RequestPathLeavesSnapshot ==
    [][ /\ (rpc' # rpc \/ rloc' # rloc) => recentCVEs' = recentCVEs
        /\ recentCVEs' # recentCVEs =>
             /\ epc \in {"adopt", "fileAdopt"}
             /\ epc' = "idle"
             /\ efRet'.kind = "ok"
        /\ rloc'.items.arr # "mem" /\ rloc'.result.arr # "mem"
        /\ (rpc # "render" /\ rpc' = "render") =>
             View(rloc'.result, recentCVEs', rloc') \in
                 FindRelevantOutcomes(rloc'.snap, rloc'.text)
        /\ (rpc = "render" /\ rpc' = "done") =>
             rloc'.rag = BuildCVERagBlockFromList(FindRelevantCVEs(rloc'.snap, rloc'.text))
      ]_vars

\* a request found no match in a list of more than five records: its own
\* array is sorted newest first and differs from the list in memory, which
\* is still the list the accessor copied; the prompt block has been rendered
\* from the five records cut off the sorted array
C35_Witness ==
    /\ rpc = "done"
    /\ Len(recentCVEs) > maxRecords
    /\ rloc.snap = recentCVEs
    /\ rloc.result = [arr |-> "items", len |-> maxRecords]
    /\ rloc.itemsArr # recentCVEs
    /\ rloc.itemsArr = SortNewestFirst(recentCVEs)
    /\ rloc.rag # <<>>

====
